---- MODULE Spec2Model ----
(***************************************************************************)
(* SafeDetect: the camera lifecycle, the cycle loop and the shutdown of    *)
(* the two executables of the repository,                                  *)
(*   cpp_implementation  (namespace SafeDetect, main.cpp)       "impl"     *)
(*   backend_cpp         (namespace safedetect, main.cpp)       "backend"  *)
(* A behaviour runs one of the two programs (variable program).  Numbers:  *)
(* confidences are integer percents, normalised coordinates are            *)
(* per-mille, zone bounds are tenths; real arithmetic stands for float.    *)
(***************************************************************************)
EXTENDS Integers, Naturals, Sequences, FiniteSets, TLC

VARIABLES
  program,          \* which executable runs: "impl" or "backend"
  pc,               \* position of the (single) main thread
  handler,          \* installed SIGINT handler: "default", "main", "class", "backend"
  modelLoaded,      \* the network was read from the ONNX file
  \* ---- cpp_implementation: MultiCameraDetector members and statics ----
  detector,         \* main.cpp global unique_ptr<MultiCameraDetector> is non-null
  producer,         \* KafkaProducer handles: "null", "noTopic" (producer only), "ready"
  cameras,          \* std::vector<Camera>: records [zone, isActive, opened]
  isRunning,
  shouldExit,
  reconnectAttempt, \* function-local static int of processCameraFeeds, kept mod ReconnectEvery
  camIdx,           \* position of the range-for over cameras / cameras_
  \* ---- backend_cpp: MultiCameraDetector, DetectionKafkaProducer, main ----
  cameras_,         \* unordered_map<string, VideoCapture> in iteration order: [zone, opened]
  camera_status_,
  is_running_,
  producer_,        \* DetectionKafkaProducer::producer_ is non-null
  kp_is_running_,   \* DetectionKafkaProducer::is_running_
  g_signal_status,
  all_detections,
  \* ---- observation (history) variables ----
  stopCalls,        \* calls of MultiCameraDetector::stop() that have returned
  stopRequested,    \* a handled stop signal was delivered or stop() was called
  cycleAfterStop,   \* a cycle was started after stopRequested
  activeAtStart,    \* zones Active when the current cycle started
  readThisCycle,    \* zones whose capture was read in the current cycle
  failStreak,       \* consecutive failed reads per zone, saturating at ReadRetries
  degradedCycles,   \* cycles a zone was visited while inactive, saturating at CycleCap
  attempted,        \* zones that attempted a reconnect in the current cycle
  blindSpotSeen,    \* an accepted detection of the current cycle is in its blind spot
  alerts,           \* Alert Sink invocations in the current cycle
  flushed,          \* the Kafka producer was flushed on shutdown
  doubleRelease,    \* stop() released a capture that was not open
  sentAfterStop,    \* a batch was handed to the sink after stop() returned
  sent,             \* latest hand-over of the current cycle: Publisher calls and their result
  unpublished,      \* an accepted detection was left out of the batch handed over
  processed,        \* frames that reached the detector per zone in the current cycle
  startupOpens,     \* the opens at startup: whether they were made, and the zones that failed
  futures,          \* start_cameras: the tasks launched, in launch order, until it returns
  \* ---- one call of a function on its own (program = "unit") ----
  unitFn,           \* the function applied so far: "none", "NMS", "NMSBoxes", ...
  unitIn,           \* its argument: a sequence of nms.hpp Detection records
  unitKept,         \* what suppression kept, before any cap
  unitOut,          \* what the function returned
  unitOut2,         \* what it returned when applied to unitOut
  unitRet,          \* a Publisher call: sink calls made and the value returned
  unitFrame,        \* network output of one frame: [columns (impl), rows (backend)]
  unitArg,          \* arguments of a function that takes no detection list ([fn |-> ...])
  unitVal           \* what that function returned ([fn |-> ...])

implVars    == <<detector, producer, cameras, isRunning, shouldExit, reconnectAttempt>>
backendVars == <<cameras_, camera_status_, is_running_, producer_, kp_is_running_,
                 g_signal_status, all_detections>>
cycleObs    == <<activeAtStart, readThisCycle, attempted, blindSpotSeen, alerts>>
stopObs     == <<stopCalls, stopRequested, cycleAfterStop, flushed, doubleRelease, sentAfterStop>>
sendObs     == <<sent, unpublished, processed>>
unitVars    == <<unitFn, unitIn, unitKept, unitOut, unitOut2, unitRet, unitFrame,
                 unitArg, unitVal>>
vars == <<program, pc, handler, modelLoaded, camIdx, implVars, backendVars,
          cycleObs, stopObs, sendObs, startupOpens, futures, failStreak, degradedCycles,
          unitVars>>

(***************************************************************************)
(* Configuration                                                           *)
(***************************************************************************)
Zones == {"left", "rear", "right"}
\* std::map<std::string, CameraConfig>: iteration in key order
CAMERA_CONFIG == <<"left", "rear", "right">>
ReconnectEvery == 100
ReadRetries == 3
FRAME_W == 640
FRAME_H == 480
IMPL_MODEL_CONFIDENCE == 10
\* saturation of the degradedCycles history counter
CycleCap == 2
\* raw candidates per frame offered to the cycle
MaxColumns == 1

\* zone rectangles in tenths (the same table in both programs)
BLIND_SPOT_ZONES ==
  [left  |-> [xMin |-> 0, xMax |-> 3,  yMin |-> 2, yMax |-> 8],
   right |-> [xMin |-> 7, xMax |-> 10, yMin |-> 2, yMax |-> 8],
   rear  |-> [xMin |-> 3, xMax |-> 7,  yMin |-> 7, yMax |-> 10]]

Min(a, b) == IF a < b THEN a ELSE b
Max(a, b) == IF a > b THEN a ELSE b
\* static_cast<int> of a quotient: truncation toward zero
TruncDiv(a, b) == IF a >= 0 THEN a \div b ELSE -((-a) \div b)
SeqsUpTo(S, n) == UNION {[1..k -> S] : k \in 0..n}
Range(s) == {s[i] : i \in 1..Len(s)}

(***************************************************************************)
(* cpp_implementation: inference post-processing                           *)
(***************************************************************************)
classNames == <<"person", "car", "motorcycle">>

\* columns of the network output: centre/size per-mille of the frame, one score per class
ImplColumns ==
  { [x |-> 150, y |-> 500, w |-> 200, h |-> 400, scores |-> <<90, 5, 1>>],
    [x |-> 500, y |-> 850, w |-> 300, h |-> 200, scores |-> <<2, 80, 3>>],
    [x |-> 850, y |-> 500, w |-> 200, h |-> 400, scores |-> <<5, 3, 60>>],
    [x |-> 500, y |-> 500, w |-> 100, h |-> 100, scores |-> <<5, 3, 2>>] }

\* cv::minMaxLoc: the first position of the maximum
ArgMax(scores) ==
  CHOOSE i \in 1..Len(scores) :
    /\ \A j \in 1..Len(scores) : scores[j] <= scores[i]
    /\ \A j \in 1..(i - 1) : scores[j] < scores[i]

YoloResult(col) ==
  LET c == ArgMax(col.scores) IN
  [bbox |-> [x      |-> TruncDiv((2 * col.x - col.w) * FRAME_W, 2000),
             y      |-> TruncDiv((2 * col.y - col.h) * FRAME_H, 2000),
             width  |-> TruncDiv(col.w * FRAME_W, 1000),
             height |-> TruncDiv(col.h * FRAME_H, 1000)],
   confidence |-> col.scores[c],
   className  |-> classNames[c]]

RECURSIVE processOutput(_)
processOutput(cols) ==
  IF cols = <<>> THEN <<>>
  ELSE LET col == Head(cols)
           rest == processOutput(Tail(cols))
       IN IF col.scores[ArgMax(col.scores)] >= IMPL_MODEL_CONFIDENCE
          THEN <<YoloResult(col)>> \o rest
          ELSE rest

\* x_center = (bbox.x + bbox.width/2) / frame.cols, kept as numerator over 2*FRAME_W
implDetection(result, zone) ==
  [bbox |-> <<result.bbox.x, result.bbox.y,
              result.bbox.x + result.bbox.width, result.bbox.y + result.bbox.height>>,
   confidence  |-> result.confidence,
   object      |-> result.className,
   camera_zone |-> zone,
   xc2 |-> 2 * result.bbox.x + result.bbox.width,
   yc2 |-> 2 * result.bbox.y + result.bbox.height]

processFrame(cols, zone) ==
  LET results == processOutput(cols)
  IN [i \in 1..Len(results) |-> implDetection(results[i], zone)]

\* the comparison with the bounds excluded
InRect_exclusive(xc2, yc2, r) ==
  /\ r.xMin * 2 * FRAME_W < xc2 * 10 /\ xc2 * 10 < r.xMax * 2 * FRAME_W
  /\ r.yMin * 2 * FRAME_H < yc2 * 10 /\ yc2 * 10 < r.yMax * 2 * FRAME_H

\* inclusive bounds; (xc2, yc2) are the centre times 2*FRAME_W, 2*FRAME_H
InRect(xc2, yc2, r) ==
  /\ r.xMin * 2 * FRAME_W <= xc2 * 10 /\ xc2 * 10 <= r.xMax * 2 * FRAME_W
  /\ r.yMin * 2 * FRAME_H <= yc2 * 10 /\ yc2 * 10 <= r.yMax * 2 * FRAME_H

\* isInBlindSpot on the x_center, y_center that processFrame computes; the zone of a
\* camera is always a key of BLIND_SPOT_ZONES
InBlindSpot(d) == InRect(d.xc2, d.yc2, BLIND_SPOT_ZONES[d.camera_zone])

\* isInBlindSpot(x_center, y_center, zone): BLIND_SPOT_ZONES.at(zone) throws
\* std::out_of_range for a key that is not in the map
isInBlindSpot(xc2, yc2, zone) ==
  IF zone \notin DOMAIN BLIND_SPOT_ZONES
  THEN [threw |-> TRUE, value |-> FALSE]
  ELSE [threw |-> FALSE, value |-> InRect(xc2, yc2, BLIND_SPOT_ZONES[zone])]

AnyInBlindSpot(dets) == \E i \in 1..Len(dets) : InBlindSpot(dets[i])

(***************************************************************************)
(* backend_cpp: candidate filter of process_all_cameras (lines 164-220)    *)
(***************************************************************************)
BACKEND_MODEL_CONFIDENCE == 25
NMS_THRESHOLD == 50
MIN_BOX_AREA == 10000
POSITION_SCALE_X == 15
POSITION_SCALE_Y == 10
OBJECT_CLASSES == (0 :> "person") @@ (2 :> "car") @@ (3 :> "motorcycle")

\* rows [x, y, w, h, conf, cls] of the network output, pixels and percent
BackendRows ==
  { [x |-> 96,  y |-> 240, w |-> 120, h |-> 120, conf |-> 90, cls |-> 0],
    [x |-> 320, y |-> 408, w |-> 200, h |-> 100, conf |-> 80, cls |-> 2],
    [x |-> 544, y |-> 240, w |-> 120, h |-> 120, conf |-> 60, cls |-> 3],
    [x |-> 320, y |-> 240, w |-> 120, h |-> 120, conf |-> 20, cls |-> 0] }

\* cv::Rect & cv::Rect
RectAnd(a, b) ==
  LET x1 == Max(a.x, b.x)
      y1 == Max(a.y, b.y)
      w  == Min(a.x + a.width, b.x + b.width) - x1
      h  == Min(a.y + a.height, b.y + b.height) - y1
  IN IF w <= 0 \/ h <= 0
     THEN [x |-> 0, y |-> 0, width |-> 0, height |-> 0]
     ELSE [x |-> x1, y |-> y1, width |-> w, height |-> h]

RectArea(r) == r.width * r.height

\* lines 179-188: the clipped box of a row
RowBox(row) ==
  LET x1 == TruncDiv(2 * row.x - row.w, 2)
      y1 == TruncDiv(2 * row.y - row.h, 2)
      x2 == TruncDiv(2 * row.x + row.w, 2)
      y2 == TruncDiv(2 * row.y + row.h, 2)
  IN RectAnd([x |-> x1, y |-> y1, width |-> x2 - x1, height |-> y2 - y1],
             [x |-> 0, y |-> 0, width |-> FRAME_W, height |-> FRAME_H])

\* lines 175-194: the test a row passes to enter boxes/confidences/classIds
RowKept(row) ==
  /\ row.conf > BACKEND_MODEL_CONFIDENCE
  /\ row.cls \in DOMAIN OBJECT_CLASSES
  /\ OBJECT_CLASSES[row.cls] \in {"person", "car"}
  /\ TruncDiv(2 * row.x + row.w, 2) > TruncDiv(2 * row.x - row.w, 2)
  /\ TruncDiv(2 * row.y + row.h, 2) > TruncDiv(2 * row.y - row.h, 2)
  /\ row.w > 0 /\ row.h > 0
  /\ RowBox(row).width > 0 /\ RowBox(row).height > 0
  /\ RectArea(RowBox(row)) >= MIN_BOX_AREA

\* the parallel vectors boxes, confidences, classIds as one sequence of records
RECURSIVE KeptRows(_)
KeptRows(rows) ==
  IF rows = <<>> THEN <<>>
  ELSE (IF RowKept(Head(rows))
        THEN <<[box |-> RowBox(Head(rows)), conf |-> Head(rows).conf, cls |-> Head(rows).cls]>>
        ELSE <<>>) \o KeptRows(Tail(rows))

\* std::stable_sort by score, descending: i goes after every entry scored >= it
RECURSIVE InsertByScore(_, _, _)
InsertByScore(sorted, i, cands) ==
  IF sorted = <<>> THEN <<i>>
  ELSE IF cands[Head(sorted)].conf >= cands[i].conf
       THEN <<Head(sorted)>> \o InsertByScore(Tail(sorted), i, cands)
       ELSE <<i>> \o sorted

RECURSIVE ScoreOrder(_, _)
ScoreOrder(n, cands) ==
  IF n = 0 THEN <<>>
  ELSE LET before == ScoreOrder(n - 1, cands)
       IN IF cands[n].conf > BACKEND_MODEL_CONFIDENCE
          THEN InsertByScore(before, n, cands)
          ELSE before

\* 1 - jaccardDistance(a, b) > nms_threshold
Overlaps(a, b) ==
  LET inter == RectArea(RectAnd(a, b))
  IN inter * 100 > NMS_THRESHOLD * (RectArea(a) + RectArea(b) - inter)

\* cv::dnn::NMSBoxes(boxes, confidences, MODEL_CONFIDENCE, 0.5f, indices): greedy, class-blind
RECURSIVE NMSKeep(_, _, _)
NMSKeep(order, kept, cands) ==
  IF order = <<>> THEN kept
  ELSE LET i == Head(order)
       IN IF \E k \in Range(kept) : Overlaps(cands[i].box, cands[k].box)
          THEN NMSKeep(Tail(order), kept, cands)
          ELSE NMSKeep(Tail(order), Append(kept, i), cands)

NMSBoxes(cands) == NMSKeep(ScoreOrder(Len(cands), cands), <<>>, cands)

\* lines 207-214: std::sort by confidence and resize(1); the order of equal
\* confidences is unspecified, so any index of maximal confidence may come first
TopIndices(indices, cands) ==
  {i \in Range(indices) : \A j \in Range(indices) : cands[j].conf <= cands[i].conf}

\* calculate_detection: position in units of 1/(20*FRAME_W), 1/(20*FRAME_H)
calculate_detection(cand, zone) ==
  [object      |-> OBJECT_CLASSES[cand.cls],
   confidence  |-> cand.conf,
   bbox        |-> <<cand.box.x, cand.box.y,
                     cand.box.x + cand.box.width, cand.box.y + cand.box.height>>,
   class_id    |-> cand.cls,
   camera_zone |-> zone,
   position    |-> [x |-> (2 * cand.box.x + cand.box.width) * POSITION_SCALE_X,
                    y |-> (2 * cand.box.y + cand.box.height) * POSITION_SCALE_Y,
                    z |-> IF zone = "left" THEN 4 ELSE IF zone = "right" THEN -5 ELSE 0,
                    zone |-> zone]]

\* the detections vectors process_all_cameras can build from the rows of one frame
FrameDetections(rows, zone) ==
  LET cands == KeptRows(rows)
      indices == NMSBoxes(cands)
  IN IF indices = <<>> THEN {<<>>}
     ELSE {<<calculate_detection(cands[i], zone)>> : i \in TopIndices(indices, cands)}

\* is_in_blind_spot on x_pos = position.x / POSITION_SCALE.x, y_pos likewise
is_in_blind_spot(d) ==
  /\ d.camera_zone \in DOMAIN BLIND_SPOT_ZONES
  /\ InRect(d.position.x \div POSITION_SCALE_X, d.position.y \div POSITION_SCALE_Y,
            BLIND_SPOT_ZONES[d.camera_zone])

\* is_in_blind_spot(x_center, y_center, zone): find, false for a missing key
is_in_blind_spot_at(xc2, yc2, zone) ==
  IF zone \notin DOMAIN BLIND_SPOT_ZONES
  THEN [threw |-> FALSE, value |-> FALSE]
  ELSE [threw |-> FALSE, value |-> InRect(xc2, yc2, BLIND_SPOT_ZONES[zone])]

Perms(S) == {p \in [1..Cardinality(S) -> S] : \A i, j \in 1..Cardinality(S) : p[i] = p[j] => i = j}

(***************************************************************************)
(* backend_cpp/src/nms.hpp: IoU and NMS on Detection {x1, y1, x2, y2,     *)
(* confidence, class_id}; thresholds in percent                            *)
(***************************************************************************)
\* IoU(a, b) as the fraction inter / unionArea
IoU(a, b) ==
  LET w == Max(0, Min(a.x2, b.x2) - Max(a.x1, b.x1))
      h == Max(0, Min(a.y2, b.y2) - Max(a.y1, b.y1))
      inter == w * h
      areaA == (a.x2 - a.x1) * (a.y2 - a.y1)
      areaB == (b.x2 - b.x1) * (b.y2 - b.y1)
  IN [inter |-> inter, unionArea |-> areaA + areaB - inter]

\* the float IoU returns: inter / unionArea; the intersection is positive only when
\* both areas are, so a zero unionArea means 0/0, which is NaN; inter is 0 whenever
\* unionArea is negative, and -0.0 compares equal to 0
IoUFloat(a, b) ==
  LET r == IoU(a, b)
  IN IF r.unionArea = 0
     THEN [nan |-> TRUE, num |-> 0, den |-> 1]
     ELSE [nan |-> FALSE, num |-> r.inter, den |-> r.unionArea]

\* operator== on two floats: false when either is NaN
FloatEq(p, q) == ~p.nan /\ ~q.nan /\ p.num * q.den = q.num * p.den
FloatIs(p, n) == ~p.nan /\ p.num = n * p.den

\* IoU(a, b) > iou_threshold; 0/0 is NaN and compares false
IoUAbove(a, b, iou_threshold) ==
  /\ IoU(a, b).unionArea > 0
  /\ IoU(a, b).inter * 100 > iou_threshold * IoU(a, b).unionArea

\* lines 33-36: the detections at or above conf_threshold, in input order
ConfFilter(detections, conf_threshold) ==
  SelectSeq(detections, LAMBDA d : d.confidence >= conf_threshold)

\* the sort with the comparison reversed: ascending confidence
SortedAscending(dets) ==
  { [i \in 1..Len(dets) |-> dets[p[i]]] :
      p \in { q \in Perms(1..Len(dets)) :
                \A i, j \in 1..Len(dets) :
                  i < j => dets[q[i]].confidence <= dets[q[j]].confidence } }

\* lines 39-41: std::sort by confidence descending; the order of equal
\* confidences is unspecified, so every descending arrangement is a result
SortedByConfidence(dets) ==
  { [i \in 1..Len(dets) |-> dets[p[i]]] :
      p \in { q \in Perms(1..Len(dets)) :
                \A i, j \in 1..Len(dets) :
                  i < j => dets[q[i]].confidence >= dets[q[j]].confidence } }

\* lines 43-55: greedy suppression of later same-class entries with IoU above threshold
RECURSIVE NMSLoop(_, _, _, _, _)
NMSLoop(dets, i, suppressed, filtered, iou_threshold) ==
  IF i > Len(dets) THEN filtered
  ELSE IF i \in suppressed
       THEN NMSLoop(dets, i + 1, suppressed, filtered, iou_threshold)
       ELSE NMSLoop(dets, i + 1,
                    suppressed \cup
                      { j \in (i + 1)..Len(dets) :
                          /\ j \notin suppressed
                          /\ IoUAbove(dets[i], dets[j], iou_threshold)
                          /\ dets[i].class_id = dets[j].class_id },
                    Append(filtered, dets[i]), iou_threshold)

\* NMS(detections, iou_threshold, conf_threshold): the vectors it can return
NMS(detections, iou_threshold, conf_threshold) ==
  { NMSLoop(dets, 1, {}, <<>>, iou_threshold) :
      dets \in SortedByConfidence(ConfFilter(detections, conf_threshold)) }

\* the boxes / confidences / classIds entry of process_all_cameras for a Detection
ToCand(d) ==
  [box  |-> [x |-> d.x1, y |-> d.y1, width |-> d.x2 - d.x1, height |-> d.y2 - d.y1],
   conf |-> d.confidence,
   cls  |-> d.class_id]

\* multi_camera_detector.cpp line 204 on these entries: what NMSBoxes keeps
BackendKept(detections) ==
  LET cands == [i \in 1..Len(detections) |-> ToCand(detections[i])]
      indices == NMSBoxes(cands)
  IN [k \in 1..Len(indices) |-> detections[indices[k]]]

\* lines 204-214: NMSBoxes, std::sort of the indices, resize(1)
BackendFilter(detections) ==
  LET cands == [i \in 1..Len(detections) |-> ToCand(detections[i])]
      indices == NMSBoxes(cands)
  IN IF indices = <<>> THEN {<<>>}
     ELSE {<<detections[i]>> : i \in TopIndices(indices, cands)}

(***************************************************************************)
(* The two publishers                                                      *)
(***************************************************************************)
ProduceOutcomes == {"ok", "err", "throw"}

\* a publisher that produces a second time when produce reports an error
sendDetections_retry(detections, outcome) ==
  [calls |-> IF outcome = "throw" THEN 0 ELSE IF outcome = "err" THEN 2 ELSE 1,
   ok    |-> outcome = "ok"]

\* KafkaProducer::sendDetections: the message is built and produced whatever the
\* size of the list; "throw" is an exception raised before produce is reached
sendDetections(detections, outcome) ==
  [calls |-> IF outcome = "throw" THEN 0 ELSE 1,
   ok    |-> outcome = "ok"]

\* a publisher that produces without looking at is_running_ and producer_
send_detections_unchecked(detections, running, outcome) ==
  [calls |-> 1,
   ok    |-> TRUE]

\* DetectionKafkaProducer::send_detections: skipped unless running; produce and
\* flush otherwise, an exception is logged; nothing is returned to the caller
send_detections(detections, running, outcome) ==
  [calls |-> IF running THEN 1 ELSE 0,
   ok    |-> TRUE]

(***************************************************************************)
(* The JSON documents the publishers build (nlohmann::json): an object is  *)
(* [kind |-> "object", fields |-> record], an array is [kind |-> "array",   *)
(* items |-> sequence]; numbers and strings stand for themselves            *)
(***************************************************************************)
JObject(fields) == [kind |-> "object", fields |-> fields]
JArray(items) == [kind |-> "array", items |-> items]

\* std::time(nullptr) / system_clock::now(): the reading of the clock
ClockReading == 0

\* SafeDetect::Position3D::toJson (Detection.hpp): x and y as the centre numerators
Position3D_toJson(d) ==
  JObject([x |-> d.xc2, y |-> d.yc2,
           z |-> IF d.camera_zone = "left" THEN 4 ELSE IF d.camera_zone = "right" THEN -5 ELSE 0,
           zone |-> d.camera_zone])

\* SafeDetect::Detection::toJson (Detection.cpp lines 15-29)
toJson(d) ==
  JObject([bounding_box |-> JObject([x |-> d.bbox[1], y |-> d.bbox[2],
                                     width |-> d.bbox[3] - d.bbox[1],
                                     height |-> d.bbox[4] - d.bbox[2]]),
           confidence   |-> d.confidence,
           object       |-> d.object,
           position     |-> Position3D_toJson(d),
           camera_zone  |-> d.camera_zone,
           timestamp    |-> ClockReading])

\* KafkaProducer::sendDetections lines 77-85: the message that is dumped and produced
sendDetectionsMessage(detections) ==
  JObject([type       |-> "detections",
           timestamp  |-> ClockReading,
           detections |-> JArray([i \in 1..Len(detections) |-> toJson(detections[i])])])

\* safedetect::Detection::to_json (config.hpp lines 118-133)
to_json(d) ==
  JObject([object      |-> d.object,
           position    |-> JObject([x |-> d.position.x, y |-> d.position.y,
                                    z |-> d.position.z, zone |-> d.position.zone]),
           confidence  |-> d.confidence,
           bbox        |-> JArray(d.bbox),
           class_id    |-> d.class_id,
           camera_zone |-> d.camera_zone,
           timestamp   |-> ClockReading])

\* DetectionKafkaProducer::send_detections lines 48-53: the message that is produced
send_detections_message(detections) ==
  JArray([i \in 1..Len(detections) |-> to_json(detections[i])])

\* a single-detection call that publishes an empty list
sendDetection_empty(detection, outcome) ==
  [ret |-> sendDetections(<<>>, outcome), message |-> sendDetectionsMessage(<<>>)]

\* KafkaProducer::sendDetection (lines 69-72): sendDetections on the one-element vector
sendDetection(detection, outcome) ==
  [ret     |-> sendDetections(<<detection>>, outcome),
   message |-> sendDetectionsMessage(<<detection>>)]

\* what one camera.capture.read(frame) can do
ReadResults == {"frame", "false", "throw"}

\* the retry loop without its break: every pass reads
readRetries_noBreak(results, retries, reads) ==
  [frameRead |-> \E i \in 1..ReadRetries : results[i] = "frame", reads |-> ReadRetries]

\* MultiCameraDetector.cpp lines 180-190: for (retries = 0; retries < 3; retries++)
\* with break at the first read that returns true; a cv::Exception is caught in the
\* body and the loop goes on
RECURSIVE readRetries(_, _, _)
readRetries(results, retries, reads) ==
  IF retries >= ReadRetries
  THEN [frameRead |-> FALSE, reads |-> reads]
  ELSE IF results[retries + 1] = "frame"
       THEN [frameRead |-> TRUE, reads |-> reads + 1]
       ELSE readRetries(results, retries + 1, reads + 1)

\* lines 178-196 for an Active camera: the loop, then isActive = false unless a frame
\* was read
readCamera(results) ==
  LET r == readRetries(results, 0, 0)
  IN [frameRead |-> r.frameRead, reads |-> r.reads, isActive |-> r.frameRead]

\* no scalar argument / no result yet
NoArg == [fn |-> "none"]

\* a frame for which the network reports nothing
NoFrame == [columns |-> <<>>, rows |-> <<>>]

\* no hand-over yet in this cycle
NoSend == [attempts |-> 0, ret |-> [calls |-> 0, ok |-> TRUE],
           batch |-> [empty |-> FALSE, foreign |-> {}]]

\* what is kept of a batch handed to the publisher while the loop is at the camera of
\* zone: whether it is empty, and the camera_zone values in it that are not zone
BatchSummary(batch, zone) ==
  [empty   |-> batch = <<>>,
   foreign |-> {batch[i].camera_zone : i \in 1..Len(batch)} \ {zone}]

\* a loop that hands over whatever processFrame returned
hasDetections_always(detections) == TRUE

\* processCameraFeeds line 205: if (!detections.empty())
hasDetections(detections) == detections # <<>>

\* a hand-over that leaves out the detections inside their blind-spot zone
sentBatch_outsideBlindSpot(detections) ==
  SelectSeq(detections, LAMBDA d : ~InBlindSpot(d))

\* MultiCameraDetector.cpp line 213: the list passed to producer->sendDetections is
\* the whole return value of processFrame
sentBatch(detections) == detections

\* multi_camera_detector.cpp line 225: the list passed to send_detections is the
\* whole detections vector of the frame
sent_batch(detections) == detections

\* the detections of a list that are not in the batch handed over
LeftOut(detections, batch) ==
  {i \in 1..Len(detections) : detections[i] \notin Range(batch)}

(***************************************************************************)
(* Initial state: main() has not executed its first statement              *)
(***************************************************************************)
Init ==
  /\ program \in {"impl", "backend"}
  /\ pc = "main"
  /\ handler = "default"
  /\ modelLoaded = FALSE
  /\ detector = FALSE
  /\ producer = "null"
  /\ cameras = <<>>
  /\ isRunning = FALSE
  /\ shouldExit = FALSE
  /\ reconnectAttempt = 0
  /\ camIdx = 0
  /\ cameras_ = <<>>
  /\ camera_status_ = [z \in Zones |-> "unknown"]
  /\ is_running_ = FALSE
  /\ producer_ = FALSE
  /\ kp_is_running_ = FALSE
  /\ g_signal_status = 0
  /\ all_detections = <<>>
  /\ stopCalls = 0
  /\ stopRequested = FALSE
  /\ cycleAfterStop = FALSE
  /\ activeAtStart = {}
  /\ readThisCycle = {}
  /\ failStreak = [z \in Zones |-> 0]
  /\ degradedCycles = [z \in Zones |-> 0]
  /\ attempted = {}
  /\ blindSpotSeen = FALSE
  /\ alerts = 0
  /\ flushed = FALSE
  /\ doubleRelease = FALSE
  /\ sentAfterStop = FALSE
  /\ sent = NoSend
  /\ unpublished = FALSE
  /\ processed = [z \in Zones |-> 0]
  /\ startupOpens = [done |-> FALSE, failed |-> {}]
  /\ futures = <<>>
  /\ unitFn = "none"
  /\ unitIn = <<>>
  /\ unitKept = <<>>
  /\ unitOut = <<>>
  /\ unitOut2 = <<>>
  /\ unitRet = [calls |-> 0, ok |-> TRUE]
  /\ unitFrame = NoFrame
  /\ unitArg = NoArg
  /\ unitVal = NoArg

(***************************************************************************)
(* cpp_implementation: main.cpp and MultiCameraDetector                    *)
(***************************************************************************)
ActiveZones == {cameras[i].zone : i \in {j \in 1..Len(cameras) : cameras[j].isActive}}
DegradedZones == {cameras[i].zone : i \in {j \in 1..Len(cameras) : ~cameras[j].isActive}}
ImplOpenHandles == {cameras[i].zone : i \in {j \in 1..Len(cameras) : cameras[j].opened}}

\* stop() without the isOpened() test and without cameras.clear()
stop_releaseAll ==
  /\ isRunning' = FALSE
  /\ doubleRelease' = (doubleRelease \/ \E i \in 1..Len(cameras) : ~cameras[i].opened)
  /\ cameras' = [i \in 1..Len(cameras) |-> [cameras[i] EXCEPT !.opened = FALSE]]
  /\ stopCalls' = stopCalls + 1
  /\ stopRequested' = TRUE

\* MultiCameraDetector::stop(): release() only captures that are open, then clear
stop ==
  /\ isRunning' = FALSE
  /\ doubleRelease' = doubleRelease
  /\ cameras' = <<>>
  /\ stopCalls' = stopCalls + 1
  /\ stopRequested' = TRUE

\* main(): installs main.cpp's signalHandler for SIGINT and SIGTERM
main ==
  /\ program = "impl" /\ pc = "main"
  /\ handler' = "main"
  /\ pc' = "construct"
  /\ UNCHANGED <<unitVars, futures, startupOpens, sendObs, program, modelLoaded, camIdx, implVars, backendVars, cycleObs, stopObs,
                 failStreak, degradedCycles>>

\* detector = make_unique<MultiCameraDetector>(): YOLO::loadModel throws when the
\* network cannot be read, main's catch returns 1 and the global stays null
MultiCameraDetector_ctor ==
  /\ program = "impl" /\ pc = "construct"
  /\ \E ok \in BOOLEAN :
       /\ modelLoaded' = ok
       /\ detector' = ok
       /\ pc' = IF ok THEN "initialize" ELSE "exit"
  /\ UNCHANGED <<unitVars, futures, startupOpens, sendObs, program, handler, camIdx, producer, cameras, isRunning, shouldExit,
                 reconnectAttempt, backendVars, cycleObs, stopObs, failStreak, degradedCycles>>

\* initialize(), first half: producer->initialize() = createProducer() && createTopic()
initialize ==
  /\ program = "impl" /\ pc = "initialize"
  /\ \E p \in {"null", "noTopic", "ready"} :
       /\ producer' = p
       /\ pc' = IF p = "ready" THEN "initializeCameras" ELSE "exit"
  /\ UNCHANGED <<unitVars, futures, startupOpens, sendObs, program, handler, modelLoaded, camIdx, detector, cameras, isRunning,
                 shouldExit, reconnectAttempt, backendVars, cycleObs, stopObs, failStreak,
                 degradedCycles>>

\* every configured camera pushed Active, opened or not
OpenedCameras_all(config, ok) ==
  [i \in 1..Len(config) |-> [zone |-> config[i], isActive |-> TRUE, opened |-> config[i] \in ok]]

RECURSIVE OpenedCameras(_, _)
OpenedCameras(config, ok) ==
  IF config = <<>> THEN <<>>
  ELSE (IF Head(config) \in ok
        THEN <<[zone |-> Head(config), isActive |-> TRUE, opened |-> TRUE]>>
        ELSE <<>>) \o OpenedCameras(Tail(config), ok)

\* initializeCameras(): every configured camera whose open succeeds is pushed Active;
\* returns successCount > 0, and main returns 1 when initialize() is false
initializeCameras ==
  /\ program = "impl" /\ pc = "initializeCameras"
  /\ \E ok \in SUBSET Zones :
       /\ cameras' = OpenedCameras(CAMERA_CONFIG, ok)
       /\ startupOpens' = [done |-> TRUE, failed |-> Zones \ ok]
       /\ pc' = IF Len(cameras') > 0 THEN "startProcessing" ELSE "exit"
  /\ UNCHANGED <<unitVars, futures, sendObs, program, handler, modelLoaded, camIdx, detector, producer, isRunning,
                 shouldExit, reconnectAttempt, backendVars, cycleObs, stopObs, failStreak,
                 degradedCycles>>

\* startProcessing(), lines 105-106: signal(SIGINT/SIGTERM, MultiCameraDetector::signalHandler)
startProcessing_signal ==
  /\ program = "impl" /\ pc = "startProcessing"
  /\ handler' = "class"
  /\ pc' = "startProcessing2"
  /\ UNCHANGED <<unitVars, futures, startupOpens, sendObs, program, modelLoaded, camIdx, implVars, backendVars, cycleObs, stopObs,
                 failStreak, degradedCycles>>

\* startProcessing(), lines 108-111: isRunning = true; shouldExit = false; enter the loop
startProcessing ==
  /\ program = "impl" /\ pc = "startProcessing2"
  /\ isRunning' = TRUE
  /\ shouldExit' = FALSE
  /\ pc' = "loop"
  /\ UNCHANGED <<unitVars, futures, startupOpens, sendObs, program, handler, modelLoaded, camIdx, detector, producer, cameras,
                 reconnectAttempt, backendVars, cycleObs, stopObs, failStreak, degradedCycles>>

\* the history of a cycle that starts now
BeginCycle(active) ==
  /\ activeAtStart' = active
  /\ readThisCycle' = {}
  /\ attempted' = {}
  /\ blindSpotSeen' = FALSE
  /\ alerts' = 0
  /\ sent' = NoSend
  /\ processed' = [z \in Zones |-> 0]
  /\ degradedCycles' = [z \in Zones |-> IF z \in attempted THEN 0 ELSE degradedCycles[z]]
  /\ cycleAfterStop' = (cycleAfterStop \/ stopRequested)

\* while (isRunning && !shouldExit): the test between two cycles
processCameraFeeds_while ==
  /\ program = "impl" /\ pc = "loop"
  /\ IF isRunning /\ ~shouldExit
     THEN /\ pc' = "camera"
          /\ camIdx' = 1
          /\ BeginCycle(ActiveZones)
     ELSE /\ pc' = "exit"
          /\ UNCHANGED <<camIdx, cycleObs, sent, processed, degradedCycles, cycleAfterStop>>
  /\ UNCHANGED <<unitVars, futures, startupOpens, unpublished, program, handler, modelLoaded, implVars, backendVars, stopCalls,
                 stopRequested, flushed, doubleRelease, sentAfterStop, failStreak>>

\* a loop that does not move on to the next camera
NextCamera_same ==
  /\ camIdx' = camIdx
  /\ pc' = "camera"

\* continue / end of the body of for (auto& camera : cameras)
NextCamera ==
  /\ camIdx' = camIdx + 1
  /\ pc' = IF camIdx >= Len(cameras) THEN "endCycle" ELSE "camera"

AtCamera == program = "impl" /\ pc = "camera" /\ camIdx <= Len(cameras)

\* lines 164-176: an inactive camera; every ReconnectEvery-th pass of this branch
\* (one counter for all cameras) releases and reopens the capture
camera_inactive ==
  /\ AtCamera /\ ~cameras[camIdx].isActive
  /\ LET z == cameras[camIdx].zone
         n == (reconnectAttempt + 1) % ReconnectEvery
     IN /\ reconnectAttempt' = n
        /\ degradedCycles' = [degradedCycles EXCEPT ![z] = Min(@ + 1, CycleCap)]
        /\ IF n = 0
           THEN \E ok \in BOOLEAN :
                  /\ cameras' = [cameras EXCEPT ![camIdx] =
                                   [@ EXCEPT !.opened = ok, !.isActive = ok]]
                  /\ attempted' = attempted \cup {z}
                  /\ failStreak' = [failStreak EXCEPT ![z] = IF ok THEN 0 ELSE @]
           ELSE UNCHANGED <<cameras, attempted, failStreak>>
  /\ NextCamera
  /\ UNCHANGED <<unitVars, futures, startupOpens, sendObs, program, handler, modelLoaded, detector, producer, isRunning, shouldExit,
                 backendVars, activeAtStart, readThisCycle, blindSpotSeen, alerts,
                 stopObs>>

\* lines 178-196: all ReadRetries reads of an active camera fail (false or cv::Exception)
camera_readFailed ==
  /\ AtCamera /\ cameras[camIdx].isActive
  /\ LET z == cameras[camIdx].zone
     IN /\ cameras' = [cameras EXCEPT ![camIdx] = [@ EXCEPT !.isActive = FALSE]]
        /\ readThisCycle' = readThisCycle \cup {z}
        /\ failStreak' = [failStreak EXCEPT ![z] = ReadRetries]
  /\ NextCamera
  /\ UNCHANGED <<unitVars, futures, startupOpens, sendObs, program, handler, modelLoaded, detector, producer, isRunning, shouldExit,
                 reconnectAttempt, backendVars, activeAtStart, attempted, blindSpotSeen,
                 alerts, stopObs, degradedCycles>>

\* lines 178-201 and 219-221: the read succeeds but the frame is empty (line 198), or
\* processFrame raises a std::exception, caught at line 219; the camera contributes nothing
camera_skipFrame ==
  /\ AtCamera /\ cameras[camIdx].isActive
  /\ LET z == cameras[camIdx].zone
     IN /\ readThisCycle' = readThisCycle \cup {z}
        /\ failStreak' = [failStreak EXCEPT ![z] = 0]
  /\ NextCamera
  /\ UNCHANGED <<unitVars, futures, startupOpens, sendObs, program, handler, modelLoaded, implVars, backendVars, activeAtStart,
                 attempted, blindSpotSeen, alerts, stopObs, degradedCycles>>

\* lines 178-218: the read succeeds, processFrame returns the detections and a
\* non-empty result is handed to producer->sendDetections once (its result is only logged)
camera_processFrame ==
  /\ AtCamera /\ cameras[camIdx].isActive
  /\ LET z == cameras[camIdx].zone
     IN /\ readThisCycle' = readThisCycle \cup {z}
        /\ failStreak' = [failStreak EXCEPT ![z] = 0]
        /\ processed' = [processed EXCEPT ![z] = Min(@ + 1, 2)]
        /\ \E columns \in SeqsUpTo(ImplColumns, MaxColumns) :
             LET detections == processFrame(columns, z)
                 batch == sentBatch(detections)
             IN IF hasDetections(detections)
                THEN /\ blindSpotSeen' = (blindSpotSeen \/ AnyInBlindSpot(detections))
                     /\ sentAfterStop' = (sentAfterStop \/ stopCalls > 0)
                     /\ unpublished' = (unpublished \/ LeftOut(detections, batch) # {})
                     /\ \E outcome \in ProduceOutcomes :
                          sent' = [attempts |-> 1, ret |-> sendDetections(batch, outcome),
                                   batch |-> BatchSummary(batch, z)]
                ELSE UNCHANGED <<blindSpotSeen, sentAfterStop, sent, unpublished>>
  /\ NextCamera
  /\ UNCHANGED <<unitVars, futures, startupOpens, program, handler, modelLoaded, implVars, backendVars, activeAtStart,
                 attempted, alerts, stopCalls, stopRequested, cycleAfterStop, flushed,
                 doubleRelease, degradedCycles>>

\* lines 224-237: FPS bookkeeping and the throttle sleep
processCameraFeeds_endCycle ==
  /\ program = "impl" /\ pc = "endCycle"
  /\ pc' = "loop"
  /\ UNCHANGED <<unitVars, futures, startupOpens, sendObs, program, handler, modelLoaded, camIdx, implVars, backendVars, cycleObs,
                 stopObs, failStreak, degradedCycles>>

\* process exit (return from main or exit()): the global detector is destroyed;
\* ~MultiCameraDetector() calls stop()
MultiCameraDetector_dtor ==
  /\ program = "impl" /\ pc = "exit"
  /\ IF detector
     THEN /\ stop
          /\ pc' = "members"
     ELSE /\ pc' = "exited"
          /\ UNCHANGED <<isRunning, doubleRelease, cameras, stopCalls, stopRequested>>
  /\ UNCHANGED <<unitVars, futures, startupOpens, sendObs, program, handler, modelLoaded, camIdx, detector, producer, shouldExit,
                 reconnectAttempt, backendVars, cycleObs, cycleAfterStop, flushed,
                 sentAfterStop, failStreak, degradedCycles>>

\* the members are destroyed: ~KafkaProducer() flushes when the producer exists
KafkaProducer_dtor ==
  /\ program = "impl" /\ pc = "members"
  /\ flushed' = (producer # "null")
  /\ detector' = FALSE
  /\ pc' = "exited"
  /\ UNCHANGED <<unitVars, futures, startupOpens, sendObs, program, handler, modelLoaded, camIdx, producer, cameras, isRunning,
                 shouldExit, reconnectAttempt, backendVars, cycleObs, stopCalls,
                 stopRequested, cycleAfterStop, doubleRelease, sentAfterStop, failStreak,
                 degradedCycles>>

ImplAlive == program = "impl" /\ pc \notin {"exit", "members", "exited", "killed"}

\* main.cpp signalHandler: detector->stop() when the global is set, then exit(signum)
main_signalHandler ==
  /\ ImplAlive /\ handler = "main"
  /\ IF detector
     THEN stop
     ELSE /\ stopRequested' = TRUE
          /\ UNCHANGED <<isRunning, doubleRelease, cameras, stopCalls>>
  /\ pc' = "exit"
  /\ UNCHANGED <<unitVars, futures, startupOpens, sendObs, program, handler, modelLoaded, camIdx, detector, producer, shouldExit,
                 reconnectAttempt, backendVars, cycleObs, cycleAfterStop, flushed,
                 sentAfterStop, failStreak, degradedCycles>>

\* MultiCameraDetector::signalHandler: shouldExit = true
signalHandler ==
  /\ ImplAlive /\ handler = "class"
  /\ shouldExit' = TRUE
  /\ stopRequested' = TRUE
  /\ UNCHANGED <<unitVars, futures, startupOpens, sendObs, program, pc, handler, modelLoaded, camIdx, detector, producer, cameras,
                 isRunning, reconnectAttempt, backendVars, cycleObs, stopCalls,
                 cycleAfterStop, flushed, doubleRelease, sentAfterStop, failStreak,
                 degradedCycles>>

\* a signal with the default disposition terminates the process: any signal before a
\* handler is installed, and SIGTERM throughout backend_cpp (only SIGINT is handled)
defaultSignal ==
  /\ pc \notin {"exited", "killed"}
  /\ handler = "default" \/ program = "backend"
  /\ pc' = "killed"
  /\ UNCHANGED <<unitVars, futures, startupOpens, sendObs, program, handler, modelLoaded, camIdx, implVars, backendVars, cycleObs,
                 stopObs, failStreak, degradedCycles>>

(***************************************************************************)
(* backend_cpp: main.cpp, MultiCameraDetector and DetectionKafkaProducer   *)
(***************************************************************************)
SIGINT == 2
CaptureZones == {cameras_[i].zone : i \in 1..Len(cameras_)}
BackendOpenHandles == {cameras_[i].zone : i \in {j \in 1..Len(cameras_) : cameras_[j].opened}}

\* DetectionKafkaProducer::stop_producer()
stop_producer ==
  IF ~kp_is_running_
  THEN UNCHANGED <<producer_, kp_is_running_, flushed>>
  ELSE /\ flushed' = (flushed \/ producer_)
       /\ producer_' = FALSE
       /\ kp_is_running_' = FALSE

\* a start that sets is_running_ whether or not the producer could be made
start_producer_unguarded(kafkaOk) ==
  /\ producer_' = (producer_ \/ kafkaOk)
  /\ kp_is_running_' = TRUE

\* DetectionKafkaProducer::start_producer(): nothing when running; otherwise
\* make_unique<cppkafka::Producer> either gives the handle, and is_running_ becomes
\* true, or throws before producer_ is assigned (kafkaOk false), which is only logged
start_producer(kafkaOk) ==
  IF kp_is_running_
  THEN UNCHANGED <<producer_, kp_is_running_>>
  ELSE IF kafkaOk
       THEN /\ producer_' = TRUE
            /\ kp_is_running_' = TRUE
       ELSE UNCHANGED <<producer_, kp_is_running_>>

\* safedetect::MultiCameraDetector::stop(): returns at once unless is_running_
safedetect_stop ==
  /\ IF ~is_running_
     THEN UNCHANGED <<is_running_, cameras_, camera_status_, producer_, kp_is_running_,
                      flushed>>
     ELSE /\ is_running_' = FALSE
          /\ cameras_' = <<>>
          /\ camera_status_' = [z \in Zones |-> "not_connected"]
          /\ stop_producer
  /\ stopCalls' = stopCalls + 1
  /\ stopRequested' = TRUE

\* test_multi_camera_system(), line 29: the constructor logs a model that cannot be
\* loaded and goes on; start_producer() leaves producer_ null when Kafka cannot start
test_multi_camera_system ==
  /\ program = "backend" /\ pc = "main"
  /\ \E modelOk \in BOOLEAN, kafkaOk \in BOOLEAN :
       /\ modelLoaded' = modelOk
       /\ start_producer(kafkaOk)
  /\ pc' = "signal"
  /\ UNCHANGED <<unitVars, futures, startupOpens, sendObs, program, handler, camIdx, implVars, cameras_, camera_status_, is_running_,
                 g_signal_status, all_detections, cycleObs, stopObs, failStreak,
                 degradedCycles>>

\* line 32: std::signal(SIGINT, signal_handler)
std_signal ==
  /\ program = "backend" /\ pc = "signal"
  /\ handler' = "backend"
  /\ pc' = "start_cameras"
  /\ UNCHANGED <<unitVars, futures, startupOpens, sendObs, program, modelLoaded, camIdx, implVars, backendVars, cycleObs, stopObs,
                 failStreak, degradedCycles>>

\* the zones whose task returned an opened capture
TasksOpened(futs) == {futs[i].zone : i \in {j \in 1..Len(futs) : futs[j].state = "opened"}}

\* a get() that returns whether or not the task has finished
futureReady_noWait(fut) == TRUE

\* fut.get() returns once the task has finished
futureReady(fut) == fut.state # "running"

\* start_cameras() lines 41-62: one std::async task per entry of CAMERA_CONFIG (an
\* unordered_map, so in some iteration order), then cameras_ and camera_status_ cleared
start_cameras_launch ==
  /\ program = "backend" /\ pc = "start_cameras" /\ futures = <<>>
  /\ \E order \in Perms(Zones) :
       futures' = [i \in 1..Cardinality(Zones) |->
                     [zone |-> order[i], state |-> "running", got |-> "no"]]
  /\ cameras_' = <<>>
  /\ camera_status_' = [z \in Zones |-> "unknown"]
  /\ UNCHANGED <<unitVars, startupOpens, sendObs, program, pc, handler, modelLoaded, camIdx,
                 implVars, is_running_, producer_, kp_is_running_, g_signal_status,
                 all_detections, cycleObs, stopObs, failStreak, degradedCycles>>

\* lines 45-57, on the task's own thread: cv::VideoCapture cap(config.camera_id) opens
\* or does not; the tasks finish in any order
camera_task ==
  /\ program = "backend" /\ pc = "start_cameras"
  /\ \E i \in 1..Len(futures), ok \in BOOLEAN :
       /\ futures[i].state = "running"
       /\ futures' = [futures EXCEPT ![i].state = IF ok THEN "opened" ELSE "failed"]
  /\ UNCHANGED <<unitVars, startupOpens, sendObs, program, pc, handler, modelLoaded, camIdx,
                 implVars, backendVars, cycleObs, stopObs, failStreak, degradedCycles>>

\* lines 65-75, one pass of the loop: fut.get() of the next future in launch order; an
\* opened capture is moved into cameras_ (whose iteration order is any), its zone becomes
\* "available" and it is counted in success_count (kept as got = "opened"); otherwise the
\* zone becomes "error"
start_cameras_get ==
  /\ program = "backend" /\ pc = "start_cameras"
  /\ \E i \in 1..Len(futures) :
       /\ futures[i].got = "no"
       /\ \A j \in 1..(i - 1) : futures[j].got # "no"
       /\ futureReady(futures[i])
       /\ LET zone == futures[i].zone
              isOpened == futures[i].state = "opened"
          IN /\ futures' = [futures EXCEPT ![i].got = IF isOpened THEN "opened" ELSE "empty"]
             /\ camera_status_' = [camera_status_ EXCEPT
                                     ![zone] = IF isOpened THEN "available" ELSE "error"]
             /\ IF isOpened
                THEN \E order \in Perms(CaptureZones \cup {zone}) :
                       cameras_' = [k \in 1..Len(order) |-> [zone |-> order[k], opened |-> TRUE]]
                ELSE UNCHANGED cameras_
  /\ UNCHANGED <<unitVars, startupOpens, sendObs, program, pc, handler, modelLoaded, camIdx,
                 implVars, is_running_, producer_, kp_is_running_, g_signal_status,
                 all_detections, cycleObs, stopObs, failStreak, degradedCycles>>

\* lines 77-78, after the last get(): return success_count > 0 (the futures are
\* destroyed); main.cpp lines 38-41 return from the test when it is false
start_cameras_return ==
  /\ program = "backend" /\ pc = "start_cameras"
  /\ futures # <<>> /\ \A i \in 1..Len(futures) : futures[i].got # "no"
  /\ LET success_count == Cardinality({i \in 1..Len(futures) : futures[i].got = "opened"})
     IN pc' = IF success_count > 0 THEN "loop" ELSE "exit"
  /\ startupOpens' = [done |-> TRUE, failed |-> Zones \ TasksOpened(futures)]
  /\ futures' = <<>>
  /\ UNCHANGED <<unitVars, sendObs, program, handler, modelLoaded, camIdx, implVars,
                 backendVars, cycleObs, stopObs, failStreak, degradedCycles>>

\* safedetect::MultiCameraDetector::start_cameras()
start_cameras ==
  \/ start_cameras_launch
  \/ camera_task
  \/ start_cameras_get
  \/ start_cameras_return

\* main.cpp line 53: while (g_signal_status != SIGINT); line 60-65 when it ends
main_while ==
  /\ program = "backend" /\ pc = "loop"
  /\ IF g_signal_status # SIGINT
     THEN /\ pc' = "camera"
          /\ camIdx' = 1
          /\ BeginCycle(CaptureZones)
     ELSE /\ pc' = "stop"
          /\ UNCHANGED <<camIdx, cycleObs, sent, processed, degradedCycles, cycleAfterStop>>
  /\ UNCHANGED <<unitVars, futures, startupOpens, unpublished, program, handler, modelLoaded, implVars, backendVars, stopCalls,
                 stopRequested, flushed, doubleRelease, sentAfterStop, failStreak>>

NextCapture ==
  /\ camIdx' = camIdx + 1
  /\ pc' = IF camIdx >= Len(cameras_) THEN "endCycle" ELSE "camera"

AtCapture == program = "backend" /\ pc = "camera" /\ camIdx <= Len(cameras_)

\* lines 125-128: cap.read fails; the capture is skipped for this cycle only
pac_readFailed ==
  /\ AtCapture
  /\ LET z == cameras_[camIdx].zone
     IN /\ readThisCycle' = readThisCycle \cup {z}
        /\ failStreak' = [failStreak EXCEPT ![z] = Min(@ + 1, ReadRetries)]
  /\ NextCapture
  /\ UNCHANGED <<unitVars, futures, startupOpens, sendObs, program, handler, modelLoaded, implVars, backendVars, activeAtStart,
                 attempted, blindSpotSeen, alerts, stopObs, degradedCycles>>

\* lines 131-138: blobFromImage / setInput / forward raise (always so when the network
\* was never loaded); nothing in process_all_cameras catches, main.cpp line 61 does
pac_throws ==
  /\ AtCapture
  /\ LET z == cameras_[camIdx].zone
     IN /\ readThisCycle' = readThisCycle \cup {z}
        /\ failStreak' = [failStreak EXCEPT ![z] = 0]
        /\ processed' = [processed EXCEPT ![z] = Min(@ + 1, 2)]
  /\ all_detections' = <<>>
  /\ pc' = "stop"
  /\ UNCHANGED <<unitVars, futures, startupOpens, sent, unpublished, program, handler, modelLoaded, camIdx, implVars, cameras_, camera_status_,
                 is_running_, producer_, kp_is_running_, g_signal_status, activeAtStart,
                 attempted, blindSpotSeen, alerts, stopObs, degradedCycles>>

\* lines 139-142: forward returns no output
pac_noOutputs ==
  /\ AtCapture /\ modelLoaded
  /\ LET z == cameras_[camIdx].zone
     IN /\ readThisCycle' = readThisCycle \cup {z}
        /\ failStreak' = [failStreak EXCEPT ![z] = 0]
        /\ processed' = [processed EXCEPT ![z] = Min(@ + 1, 2)]
  /\ NextCapture
  /\ UNCHANGED <<unitVars, futures, startupOpens, sent, unpublished, program, handler, modelLoaded, implVars, backendVars, activeAtStart,
                 attempted, blindSpotSeen, alerts, stopObs, degradedCycles>>

\* lines 144-226: filter, NMSBoxes, top 1, calculate_detection, append, and
\* kafka_producer_->send_detections when the frame gave a detection
pac_detect ==
  /\ AtCapture /\ modelLoaded
  /\ LET z == cameras_[camIdx].zone
     IN /\ readThisCycle' = readThisCycle \cup {z}
        /\ failStreak' = [failStreak EXCEPT ![z] = 0]
        /\ processed' = [processed EXCEPT ![z] = Min(@ + 1, 2)]
        /\ \E rows \in SeqsUpTo(BackendRows, MaxColumns) :
             \E detections \in FrameDetections(rows, z) :
               LET batch == sent_batch(detections)
               IN /\ all_detections' = all_detections \o detections
                  /\ IF detections # <<>>
                     THEN /\ blindSpotSeen' = (blindSpotSeen \/ is_in_blind_spot(detections[1]))
                          /\ sentAfterStop' = (sentAfterStop \/ stopCalls > 0)
                          /\ unpublished' = (unpublished \/ LeftOut(detections, batch) # {})
                          /\ \E outcome \in {"ok", "throw"} :
                               sent' = [attempts |-> 1,
                                        ret |-> send_detections(batch, kp_is_running_ /\ producer_,
                                                                outcome),
                                        batch |-> BatchSummary(batch, z)]
                     ELSE UNCHANGED <<blindSpotSeen, sentAfterStop, sent, unpublished>>
  /\ NextCapture
  /\ UNCHANGED <<unitVars, futures, startupOpens, program, handler, modelLoaded, implVars, cameras_, camera_status_,
                 is_running_, producer_, kp_is_running_, g_signal_status, activeAtStart,
                 attempted, alerts, stopCalls, stopRequested, cycleAfterStop, flushed,
                 doubleRelease, degradedCycles>>

\* lines 229-255 and main.cpp line 57: FPS, the blind-spot check with one
\* play_alert_sound() when any detection of the cycle is in its zone, return, sleep
pac_return ==
  /\ program = "backend" /\ pc = "endCycle"
  /\ alerts' = IF \E d \in Range(all_detections) : is_in_blind_spot(d) THEN 1 ELSE 0
  /\ all_detections' = <<>>
  /\ pc' = "loop"
  /\ UNCHANGED <<unitVars, futures, startupOpens, sendObs, program, handler, modelLoaded, camIdx, implVars, cameras_, camera_status_,
                 is_running_, producer_, kp_is_running_, g_signal_status, activeAtStart,
                 readThisCycle, attempted, blindSpotSeen, stopObs, failStreak,
                 degradedCycles>>

\* main.cpp line 65: detector.stop()
detector_stop ==
  /\ program = "backend" /\ pc = "stop"
  /\ safedetect_stop
  /\ pc' = "exit"
  /\ UNCHANGED <<unitVars, futures, startupOpens, sendObs, program, handler, modelLoaded, camIdx, implVars, g_signal_status,
                 all_detections, cycleObs, cycleAfterStop, doubleRelease, sentAfterStop,
                 failStreak, degradedCycles>>

\* return from test_multi_camera_system: ~MultiCameraDetector() calls stop()
safedetect_dtor ==
  /\ program = "backend" /\ pc = "exit"
  /\ safedetect_stop
  /\ pc' = "members"
  /\ UNCHANGED <<unitVars, futures, startupOpens, sendObs, program, handler, modelLoaded, camIdx, implVars, g_signal_status,
                 all_detections, cycleObs, cycleAfterStop, doubleRelease, sentAfterStop,
                 failStreak, degradedCycles>>

\* the members are destroyed: ~DetectionKafkaProducer() calls stop_producer(), and
\* the captures left in cameras_ are released by ~VideoCapture()
safedetect_members ==
  /\ program = "backend" /\ pc = "members"
  /\ stop_producer
  /\ cameras_' = <<>>
  /\ pc' = "exited"
  /\ UNCHANGED <<unitVars, futures, startupOpens, sendObs, program, handler, modelLoaded, camIdx, implVars, camera_status_,
                 is_running_, g_signal_status, all_detections, cycleObs, stopCalls,
                 stopRequested, cycleAfterStop, doubleRelease, sentAfterStop, failStreak,
                 degradedCycles>>

\* safedetect::signal_handler: g_signal_status = signal
signal_handler ==
  /\ program = "backend" /\ handler = "backend"
  /\ pc \notin {"stop", "exit", "members", "exited", "killed"}
  /\ g_signal_status' = SIGINT
  /\ stopRequested' = TRUE
  /\ UNCHANGED <<unitVars, futures, startupOpens, sendObs, program, pc, handler, modelLoaded, camIdx, implVars, cameras_,
                 camera_status_, is_running_, producer_, kp_is_running_, all_detections,
                 cycleObs, stopCalls, cycleAfterStop, flushed, doubleRelease, sentAfterStop,
                 failStreak, degradedCycles>>

BackendStep ==
  \/ test_multi_camera_system
  \/ std_signal
  \/ start_cameras
  \/ main_while
  \/ pac_readFailed
  \/ pac_throws
  \/ pac_noOutputs
  \/ pac_detect
  \/ pac_return
  \/ detector_stop
  \/ safedetect_dtor
  \/ safedetect_members

ImplStep ==
  \/ main
  \/ MultiCameraDetector_ctor
  \/ initialize
  \/ initializeCameras
  \/ startProcessing_signal
  \/ startProcessing
  \/ processCameraFeeds_while
  \/ camera_inactive
  \/ camera_readFailed
  \/ camera_skipFrame
  \/ camera_processFrame
  \/ processCameraFeeds_endCycle
  \/ MultiCameraDetector_dtor
  \/ KafkaProducer_dtor

Signal ==
  \/ main_signalHandler
  \/ signalHandler
  \/ signal_handler
  \/ defaultSignal

Next == ImplStep \/ BackendStep \/ Signal

Spec == Init /\ [][Next]_vars

\* the scheduler keeps running the main thread; signals are up to the environment
FairSpec == Spec /\ WF_vars(ImplStep \/ BackendStep)

(***************************************************************************)
(* One function applied on its own to bounded arguments                    *)
(***************************************************************************)
MaxCands == 3
MaxFrameColumns == 2
\* the thresholds process_all_cameras passes to NMSBoxes, used for NMS as well
IOU_THRESHOLD == NMS_THRESHOLD
CONF_THRESHOLD == BACKEND_MODEL_CONFIDENCE
\* indices.resize(1)
RESULTS_CAP == 1

Candidates ==
  { [x1 |-> 0,   y1 |-> 0,   x2 |-> 100, y2 |-> 100, confidence |-> 90, class_id |-> 0],
    [x1 |-> 5,   y1 |-> 5,   x2 |-> 105, y2 |-> 105, confidence |-> 80, class_id |-> 0],
    [x1 |-> 0,   y1 |-> 0,   x2 |-> 100, y2 |-> 100, confidence |-> 80, class_id |-> 2],
    [x1 |-> 20,  y1 |-> 0,   x2 |-> 120, y2 |-> 100, confidence |-> 85, class_id |-> 0],
    [x1 |-> 40,  y1 |-> 0,   x2 |-> 140, y2 |-> 100, confidence |-> 80, class_id |-> 0],
    [x1 |-> 200, y1 |-> 200, x2 |-> 300, y2 |-> 300, confidence |-> 90, class_id |-> 0],
    [x1 |-> 0,   y1 |-> 0,   x2 |-> 100, y2 |-> 100, confidence |-> 20, class_id |-> 0] }

\* boxes for IoU: the two of the worked example, a distant one, a point, a box of
\* zero width, and a box with x2 < x1 (negative width)
IoUBoxes ==
  { [x1 |-> 0,   y1 |-> 0,   x2 |-> 100, y2 |-> 100, confidence |-> 90, class_id |-> 0],
    [x1 |-> 5,   y1 |-> 5,   x2 |-> 105, y2 |-> 105, confidence |-> 80, class_id |-> 0],
    [x1 |-> 200, y1 |-> 200, x2 |-> 300, y2 |-> 300, confidence |-> 90, class_id |-> 0],
    [x1 |-> 0,   y1 |-> 0,   x2 |-> 0,   y2 |-> 0,   confidence |-> 90, class_id |-> 0],
    [x1 |-> 50,  y1 |-> 50,  x2 |-> 50,  y2 |-> 150, confidence |-> 90, class_id |-> 0],
    [x1 |-> 100, y1 |-> 0,   x2 |-> 0,   y2 |-> 100, confidence |-> 90, class_id |-> 0] }

Width(a) == a.x2 - a.x1
Height(a) == a.y2 - a.y1
Nondegenerate(a) == Width(a) > 0 /\ Height(a) > 0

\* points as (x_center * 2 * FRAME_W, y_center * 2 * FRAME_H) for x_center, y_center
\* in tenths, and zone names: the three configured ones and one that is not
TenthX(t) == (t * 2 * FRAME_W) \div 10
TenthY(t) == (t * 2 * FRAME_H) \div 10
ZoneNames == Zones \cup {"front"}
Tenths == {0, 1, 2, 3, 5, 7, 8, 9, 10}

\* the statistics of the cycle loop: the frame counter, the last fps (a quotient
\* num / den of type double) and the start of the window; steady_clock readings are in
\* milliseconds
MaxFrames == 3
StatsArgs ==
  {[fn |-> "stats", frame_count |-> n, fps |-> [num |-> f, den |-> 1],
    last_time |-> t0, now |-> t0 + e] :
     n \in 0..MaxFrames, f \in {0, 7}, t0 \in {0, 300},
     e \in {0, 400, 999, 1000, 1500, 1999, 2000, 2500, 3000}}

\* std::chrono::duration_cast<std::chrono::seconds>(d).count() for d >= 0 milliseconds
Seconds(ms) == ms \div 1000

\* processCameraFeeds lines 225-234: frameCount++, and once a whole second has elapsed
\* fps = frameCount / static_cast<double>(elapsed), a division of doubles
updateFps(stats) ==
  LET frameCount == stats.frame_count + 1
      elapsed == Seconds(stats.now - stats.last_time)
  IN IF elapsed >= 1
     THEN [frame_count |-> 0, fps |-> [num |-> frameCount, den |-> elapsed], last_time |-> stats.now]
     ELSE [frame_count |-> frameCount, fps |-> stats.fps, last_time |-> stats.last_time]

\* process_all_cameras lines 230-238: frame_count_++, and once a whole second has
\* elapsed fps_ = frame_count_ / elapsed, an int divided by a long long: the integer
\* quotient, converted to double afterwards
update_fps(stats) ==
  LET frame_count_ == stats.frame_count + 1
      elapsed == Seconds(stats.now - stats.last_time)
  IN IF elapsed >= 1
     THEN [frame_count |-> 0, fps |-> [num |-> frame_count_ \div elapsed, den |-> 1],
           last_time |-> stats.now]
     ELSE [frame_count |-> frame_count_, fps |-> stats.fps, last_time |-> stats.last_time]

\* the throttle at the end of a cycle; durations are in milliseconds
IMPL_FPS_TARGET == 30
BACKEND_FPS_TARGET == 15
ThrottleArgs == {[fn |-> "throttle", d |-> d] : d \in {0, 10, 33, 50, 66, 100}}

\* processCameraFeeds line 237: sleep_for(milliseconds(static_cast<int>(1000.0 / FPS_TARGET)))
\* after a cycle whose work took d; the time taken by the cycle is not measured
throttleSleep(d) ==
  LET T == 1000 \div IMPL_FPS_TARGET
  IN [T |-> T, sleep |-> T, period |-> d + T]

\* main.cpp line 57: sleep_for(milliseconds(1000 / FPS_TARGET)) after process_all_cameras
\* took d; the time taken by the cycle is not measured
throttle_sleep(d) ==
  LET T == 1000 \div BACKEND_FPS_TARGET
  IN [T |-> T, sleep |-> T, period |-> d + T]

UnitArgs ==
  {[fn |-> "IoU", a |-> a, b |-> b] : a \in IoUBoxes, b \in IoUBoxes}
  \cup StatsArgs
  \cup ThrottleArgs
  \cup {[fn |-> "producer"]}
  \cup {[fn |-> "read", results |-> f] : f \in [1..ReadRetries -> ReadResults]}
  \cup {[fn |-> "zone", x |-> TenthX(tx), y |-> TenthY(ty), zone |-> z, tx |-> tx, ty |-> ty] :
           tx \in Tenths, ty \in Tenths, z \in ZoneNames}

\* network outputs for one frame: the columns and rows offered to the cycle, and
\* columns and rows on the edges of the filters: a box that leaves the frame, a box
\* of no size, a confidence equal to the threshold, a box below the minimum area
UnitColumns ==
  ImplColumns \cup
  { [x |-> 50,  y |-> 500, w |-> 200, h |-> 400, scores |-> <<90, 5, 1>>],
    [x |-> 500, y |-> 500, w |-> 0,   h |-> 0,   scores |-> <<90, 5, 1>>] }

UnitRows ==
  BackendRows \cup
  { [x |-> 320, y |-> 240, w |-> 120, h |-> 120, conf |-> 25, cls |-> 0],
    [x |-> 30,  y |-> 240, w |-> 200, h |-> 200, conf |-> 90, cls |-> 0],
    [x |-> 320, y |-> 240, w |-> 50,  h |-> 50,  conf |-> 90, cls |-> 2] }

UnitFrames ==
  {[columns |-> c, rows |-> <<>>] : c \in SeqsUpTo(UnitColumns, MaxFrameColumns)}
  \cup {[columns |-> <<>>, rows |-> r] : r \in SeqsUpTo(UnitRows, MaxFrameColumns)}

unitLists == <<unitFrame, unitIn, unitKept, unitOut, unitOut2, unitRet>>

UnitInit ==
  /\ program = "unit"
  /\ pc = "main"
  /\ handler = "default"
  /\ modelLoaded = FALSE
  /\ detector = FALSE
  /\ producer = "null"
  /\ cameras = <<>>
  /\ isRunning = FALSE
  /\ shouldExit = FALSE
  /\ reconnectAttempt = 0
  /\ camIdx = 0
  /\ cameras_ = <<>>
  /\ camera_status_ = [z \in Zones |-> "unknown"]
  /\ is_running_ = FALSE
  /\ producer_ = FALSE
  /\ kp_is_running_ = FALSE
  /\ g_signal_status = 0
  /\ all_detections = <<>>
  /\ stopCalls = 0
  /\ stopRequested = FALSE
  /\ cycleAfterStop = FALSE
  /\ activeAtStart = {}
  /\ readThisCycle = {}
  /\ failStreak = [z \in Zones |-> 0]
  /\ degradedCycles = [z \in Zones |-> 0]
  /\ attempted = {}
  /\ blindSpotSeen = FALSE
  /\ alerts = 0
  /\ flushed = FALSE
  /\ doubleRelease = FALSE
  /\ sentAfterStop = FALSE
  /\ sent = NoSend
  /\ unpublished = FALSE
  /\ processed = [z \in Zones |-> 0]
  /\ startupOpens = [done |-> FALSE, failed |-> {}]
  /\ futures = <<>>
  /\ unitFn = "none"
  /\ \/ /\ unitIn \in SeqsUpTo(Candidates, MaxCands)
        /\ unitFrame = NoFrame
        /\ unitArg = NoArg
     \/ /\ unitIn = <<>>
        /\ unitFrame \in UnitFrames
        /\ unitArg = NoArg
     \/ /\ unitIn = <<>>
        /\ unitFrame = NoFrame
        /\ unitArg \in UnitArgs
  /\ unitVal = NoArg
  /\ unitKept = <<>>
  /\ unitOut = <<>>
  /\ unitOut2 = <<>>
  /\ unitRet = [calls |-> 0, ok |-> TRUE]

programVars == <<program, pc, handler, modelLoaded, camIdx, implVars, backendVars,
                 cycleObs, stopObs, sendObs, startupOpens, futures, failStreak,
                 degradedCycles>>

\* nms.hpp: NMS(detections, iou_thresh, conf_thresh)
apply_NMS ==
  /\ program = "unit" /\ unitFn = "none"
  /\ \E filtered \in NMS(unitIn, IOU_THRESHOLD, CONF_THRESHOLD) :
       /\ unitOut' = filtered
       /\ unitKept' = filtered
  /\ unitFn' = "NMS"
  /\ UNCHANGED <<programVars, unitFrame, unitArg, unitVal, unitIn, unitOut2, unitRet>>

\* NMS applied to what NMS returned
reapply_NMS ==
  /\ program = "unit" /\ unitFn = "NMS"
  /\ unitOut2' \in NMS(unitOut, IOU_THRESHOLD, CONF_THRESHOLD)
  /\ unitFn' = "NMS_NMS"
  /\ UNCHANGED <<programVars, unitFrame, unitArg, unitVal, unitIn, unitKept, unitOut, unitRet>>

\* multi_camera_detector.cpp lines 202-214 on boxes, confidences, classIds
apply_NMSBoxes ==
  /\ program = "unit" /\ unitFn = "none"
  /\ unitKept' = BackendKept(unitIn)
  /\ unitOut' \in BackendFilter(unitIn)
  /\ unitFn' = "NMSBoxes"
  /\ UNCHANGED <<programVars, unitFrame, unitArg, unitVal, unitIn, unitOut2, unitRet>>

\* lines 202-214 applied to what they returned
reapply_NMSBoxes ==
  /\ program = "unit" /\ unitFn = "NMSBoxes"
  /\ unitOut2' \in BackendFilter(unitOut)
  /\ unitFn' = "NMSBoxes_NMSBoxes"
  /\ UNCHANGED <<programVars, unitFrame, unitArg, unitVal, unitIn, unitKept, unitOut, unitRet>>

\* KafkaProducer::sendDetections(detections) on an initialized producer
apply_sendDetections ==
  /\ program = "unit" /\ unitFn = "none"
  /\ \E outcome \in ProduceOutcomes : unitRet' = sendDetections(unitIn, outcome)
  /\ unitFn' = "sendDetections"
  /\ UNCHANGED <<programVars, unitFrame, unitArg, unitVal, unitIn, unitKept, unitOut, unitOut2>>

\* DetectionKafkaProducer::send_detections(detections), started or not
apply_send_detections ==
  /\ program = "unit" /\ unitFn = "none"
  /\ \E running \in BOOLEAN, outcome \in {"ok", "throw"} :
       unitRet' = send_detections(unitIn, running, outcome)
  /\ unitFn' = "send_detections"
  /\ UNCHANGED <<programVars, unitFrame, unitArg, unitVal, unitIn, unitKept, unitOut, unitOut2>>
\* MultiCameraDetector::processFrame on the output of one frame (cpp_implementation)
apply_processFrame ==
  /\ program = "unit" /\ unitFn = "none"
  /\ \E z \in Zones : unitOut' = processFrame(unitFrame.columns, z)
  /\ unitFn' = "processFrame"
  /\ UNCHANGED <<programVars, unitFrame, unitArg, unitVal, unitIn, unitKept, unitOut2, unitRet>>

\* process_all_cameras lines 144-220 on the output of one frame (backend_cpp)
apply_FrameDetections ==
  /\ program = "unit" /\ unitFn = "none"
  /\ \E z \in Zones : unitOut' \in FrameDetections(unitFrame.rows, z)
  /\ unitFn' = "FrameDetections"
  /\ UNCHANGED <<programVars, unitFrame, unitArg, unitVal, unitIn, unitKept, unitOut2, unitRet>>

\* process_all_cameras lines 164-200: the rows that enter boxes/confidences/classIds
apply_KeptRows ==
  /\ program = "unit" /\ unitFn = "none"
  /\ unitOut' = KeptRows(unitFrame.rows)
  /\ unitFn' = "KeptRows"
  /\ UNCHANGED <<programVars, unitFrame, unitArg, unitVal, unitIn, unitKept, unitOut2, unitRet>>

\* the message KafkaProducer::sendDetections builds for the detections of a frame
apply_sendDetectionsMessage ==
  /\ program = "unit" /\ unitFn = "none"
  /\ \E z \in Zones :
       unitVal' = [fn |-> "message",
                   msg |-> sendDetectionsMessage(processFrame(unitFrame.columns, z))]
  /\ unitFn' = "sendDetectionsMessage"
  /\ UNCHANGED <<programVars, unitLists, unitArg>>

\* the message DetectionKafkaProducer::send_detections builds for those of a frame
apply_send_detections_message ==
  /\ program = "unit" /\ unitFn = "none"
  /\ \E z \in Zones : \E detections \in FrameDetections(unitFrame.rows, z) :
       unitVal' = [fn |-> "message", msg |-> send_detections_message(detections)]
  /\ unitFn' = "send_detections_message"
  /\ UNCHANGED <<programVars, unitLists, unitArg>>

\* KafkaProducer::sendDetection(d) for a detection d of the frame, beside
\* sendDetections on the vector that holds only d
apply_sendDetection ==
  /\ program = "unit" /\ unitFn = "none"
  /\ \E z \in Zones : \E d \in Range(processFrame(unitFrame.columns, z)) :
       \E outcome \in ProduceOutcomes :
         unitVal' = [fn |-> "sendDetection", d |-> d, outcome |-> outcome,
                     single |-> sendDetection(d, outcome),
                     list |-> [ret |-> sendDetections(<<d>>, outcome),
                               message |-> sendDetectionsMessage(<<d>>)]]
  /\ unitFn' = "sendDetection"
  /\ UNCHANGED <<programVars, unitLists, unitArg>>

\* processCameraFeeds lines 178-196 on an Active camera whose reads do as unitArg says
apply_readCamera ==
  /\ program = "unit" /\ unitFn = "none" /\ unitArg.fn = "read"
  /\ unitVal' = [fn |-> "read"] @@ readCamera(unitArg.results)
  /\ unitFn' = "readCamera"
  /\ UNCHANGED <<programVars, unitLists, unitArg>>

\* nms.hpp IoU(a, b) and IoU(b, a) on one pair of boxes
apply_IoU ==
  /\ program = "unit" /\ unitFn = "none" /\ unitArg.fn = "IoU"
  /\ unitVal' = [fn |-> "IoU",
                 ab |-> IoUFloat(unitArg.a, unitArg.b),
                 ba |-> IoUFloat(unitArg.b, unitArg.a),
                 aa |-> IoUFloat(unitArg.a, unitArg.a)]
  /\ unitFn' = "IoU"
  /\ UNCHANGED <<programVars, unitLists, unitArg>>

\* SafeDetect::MultiCameraDetector::isInBlindSpot(x_center, y_center, zone)
apply_isInBlindSpot ==
  /\ program = "unit" /\ unitFn = "none" /\ unitArg.fn = "zone"
  /\ unitVal' = [fn |-> "zone"] @@ isInBlindSpot(unitArg.x, unitArg.y, unitArg.zone)
  /\ unitFn' = "isInBlindSpot"
  /\ UNCHANGED <<programVars, unitLists, unitArg>>

\* safedetect::MultiCameraDetector::is_in_blind_spot(x_center, y_center, zone)
apply_is_in_blind_spot ==
  /\ program = "unit" /\ unitFn = "none" /\ unitArg.fn = "zone"
  /\ unitVal' = [fn |-> "zone"] @@ is_in_blind_spot_at(unitArg.x, unitArg.y, unitArg.zone)
  /\ unitFn' = "is_in_blind_spot"
  /\ UNCHANGED <<programVars, unitLists, unitArg>>

\* the statistics update at the end of a cycle of SafeDetect::MultiCameraDetector
apply_updateFps ==
  /\ program = "unit" /\ unitFn = "none" /\ unitArg.fn = "stats"
  /\ unitVal' = [fn |-> "stats"] @@ updateFps(unitArg)
  /\ unitFn' = "updateFps"
  /\ UNCHANGED <<programVars, unitLists, unitArg>>

\* the statistics update at the end of safedetect::MultiCameraDetector::process_all_cameras
apply_update_fps ==
  /\ program = "unit" /\ unitFn = "none" /\ unitArg.fn = "stats"
  /\ unitVal' = [fn |-> "stats"] @@ update_fps(unitArg)
  /\ unitFn' = "update_fps"
  /\ UNCHANGED <<programVars, unitLists, unitArg>>
\* the throttle of SafeDetect::MultiCameraDetector::processCameraFeeds
apply_throttleSleep ==
  /\ program = "unit" /\ unitFn = "none" /\ unitArg.fn = "throttle"
  /\ unitVal' = [fn |-> "throttle"] @@ throttleSleep(unitArg.d)
  /\ unitFn' = "throttleSleep"
  /\ UNCHANGED <<programVars, unitLists, unitArg>>

\* the throttle of safedetect::test_multi_camera_system
apply_throttle_sleep ==
  /\ program = "unit" /\ unitFn = "none" /\ unitArg.fn = "throttle"
  /\ unitVal' = [fn |-> "throttle"] @@ throttle_sleep(unitArg.d)
  /\ unitFn' = "throttle_sleep"
  /\ UNCHANGED <<programVars, unitLists, unitArg>>

\* what the calls of the producer's methods leave alone
producerRest == <<program, pc, handler, modelLoaded, camIdx, implVars, cameras_,
                  camera_status_, is_running_, g_signal_status, all_detections, cycleObs,
                  stopCalls, stopRequested, cycleAfterStop, doubleRelease, sentAfterStop,
                  sendObs, startupOpens, futures, failStreak, degradedCycles, unitLists,
                  unitArg>>

\* a DetectionKafkaProducer on its own, just constructed (is_running_ false, no handle):
\* a call of start_producer()
call_start_producer ==
  /\ program = "unit" /\ unitFn \in {"none", "producer"} /\ unitArg.fn = "producer"
  /\ \E kafkaOk \in BOOLEAN : start_producer(kafkaOk)
  /\ unitVal' = [fn |-> "producer", last |-> "start", calls |-> 0, ok |-> TRUE]
  /\ unitFn' = "producer"
  /\ UNCHANGED <<producerRest, flushed>>

\* a call of stop_producer()
call_stop_producer ==
  /\ program = "unit" /\ unitFn \in {"none", "producer"} /\ unitArg.fn = "producer"
  /\ stop_producer
  /\ unitVal' = [fn |-> "producer", last |-> "stop", calls |-> 0, ok |-> TRUE]
  /\ unitFn' = "producer"
  /\ UNCHANGED producerRest

\* a call of send_detections(detections) with a batch of one detection
call_send_detections ==
  /\ program = "unit" /\ unitFn \in {"none", "producer"} /\ unitArg.fn = "producer"
  /\ \E detection \in Candidates, outcome \in {"ok", "throw"} :
       unitVal' = [fn |-> "producer", last |-> "send"]
                    @@ send_detections(<<detection>>, kp_is_running_ /\ producer_, outcome)
  /\ unitFn' = "producer"
  /\ UNCHANGED <<producerRest, producer_, kp_is_running_, flushed>>

UnitNext ==
  \/ apply_NMS
  \/ reapply_NMS
  \/ apply_NMSBoxes
  \/ reapply_NMSBoxes
  \/ apply_sendDetections
  \/ apply_send_detections
  \/ apply_processFrame
  \/ apply_FrameDetections
  \/ apply_KeptRows
  \/ apply_readCamera
  \/ apply_sendDetectionsMessage
  \/ apply_send_detections_message
  \/ apply_sendDetection
  \/ apply_IoU
  \/ apply_isInBlindSpot
  \/ apply_is_in_blind_spot
  \/ apply_updateFps
  \/ apply_update_fps
  \/ apply_throttleSleep
  \/ apply_throttle_sleep
  \/ call_start_producer
  \/ call_stop_producer
  \/ call_send_detections

UnitSpec == UnitInit /\ [][UnitNext]_vars

(***************************************************************************)
(* Properties                                                              *)
(***************************************************************************)
OpenHandles == ImplOpenHandles \cup BackendOpenHandles
\* the main thread is between cycles or past the loop
CycleOver == pc \in {"loop", "stop", "exit", "members", "exited"}
InCycle == pc \in {"camera", "endCycle"}
PublisherStopped ==
  IF program = "impl" THEN flushed \/ producer = "null" ELSE flushed \/ ~producer_
\* startup succeeded and the cycle loop was entered (Running)
Started ==
  IF program = "impl" THEN handler = "class"
  ELSE \E z \in Zones : camera_status_[z] = "available"

\* C1: a session whose last ReadRetries reads all failed is not read again until a
\* reconnect has succeeded (a successful reconnect clears the failure streak).
C1_DegradedNotRead ==
  [][\A z \in Zones :
       failStreak[z] = ReadRetries => (z \in readThisCycle' => z \in readThisCycle)]_vars

\* C2: whatever other sessions are Degraded, a Degraded session is eventually offered a
\* reconnect attempt (or the system is shut down and the session released).
C2_DegradedEventuallyOffered ==
  \A z \in Zones : (z \in DegradedZones) ~> (z \in attempted \/ z \notin DegradedZones)

\* C3: a session attempts a reconnect only in a cycle that follows enough Degraded
\* cycles of its own; never in the first cycle it spends Degraded.
C3_AttemptOnlyAfterOwnCycles ==
  \A z \in attempted : degradedCycles[z] >= CycleCap

\* C4: when a cycle is over, every session that was Active at its start has been read
\* in it, whatever happened to the other sessions.
C4_ActiveAllRead ==
  CycleOver => activeAtStart \subseteq readThisCycle

\* C5: once a stop request was delivered to the program's handler (or stop() was
\* called), no new cycle starts.
C5_NoCycleAfterStop ==
  ~cycleAfterStop

\* C6: after stop() has returned, no camera device handle is open.
C6_NoHandleAfterStop ==
  stopCalls > 0 => OpenHandles = {}

\* C7: a call of stop() that follows an earlier call leaves every member and handle of
\* the detector and of its producer as it found them, and releases nothing twice.
C7_StopIdempotent ==
  [][(stopCalls >= 1 /\ stopCalls' = stopCalls + 1) =>
       /\ <<cameras, isRunning, producer, cameras_, camera_status_, is_running_,
            producer_, kp_is_running_, flushed>>' =
          <<cameras, isRunning, producer, cameras_, camera_status_, is_running_,
            producer_, kp_is_running_, flushed>>
       /\ ~doubleRelease']_vars

\* C7 witness: the destructor's stop() has returned after an earlier stop()
C7_SecondStopReturned ==
  stopCalls = 2 /\ pc = "members"

\* C8: when stop() has returned after a run (the system is Stopped) every session is
\* released and the publisher has been flushed, and no batch is sent afterwards.
C8_StoppedMeansReleasedAndFlushed ==
  /\ (Started /\ stopCalls > 0) => (OpenHandles = {} /\ PublisherStopped)
  /\ ~sentAfterStop

\* C9: a cycle runs only when the model was loaded and at least one camera connected.
C9_StartupErrorsFatal ==
  InCycle => (modelLoaded /\ Len(cameras) + Len(cameras_) > 0)

\* C10: a finished cycle invoked the Alert Sink once when one of its accepted
\* detections was in its blind-spot zone, and not at all otherwise.
C10_OneAlertIffBlindSpot ==
  CycleOver => alerts = (IF blindSpotSeen THEN 1 ELSE 0)

\* C11: every detection the filter accepted for a frame is in the batch handed to the
\* Publisher in the same cycle, and a cycle in which an accepted detection was inside
\* its blind-spot zone has handed a batch over: the blind-spot test withholds nothing.
C11_AcceptedAllHandedOver ==
  /\ ~unpublished
  /\ (InCycle /\ blindSpotSeen) => sent.attempts = 1

C11_BlindSpotDetectionHandedOver ==
  InCycle /\ blindSpotSeen /\ sent.attempts = 1 /\ sent.ret.calls = 1

\* C12: in a cycle no zone has more than one frame processed, and the batch of a
\* frame is handed to the Publisher by one call that reaches the sink at most once.
C12_OncePerCameraPerCycle ==
  /\ \A z \in Zones : processed[z] <= 1
  /\ sent.attempts <= 1
  /\ sent.ret.calls <= 1

C12_AllCamerasProcessedOnce ==
  /\ CycleOver
  /\ \A z \in Zones : processed[z] = 1
  /\ sent.attempts = 1

\* C14 (cpp_implementation): a hand-over that failed was one call of sendDetections
\* with at most one produce; unless a stop was requested the orchestrator is still
\* running inside its loop, and from the loop test it starts the next cycle with no
\* hand-over pending.
C14_FailedSendDroppedLoopGoesOn ==
  [][ /\ (program = "impl" /\ ~sent'.ret.ok) =>
          /\ sent'.attempts = 1
          /\ sent'.ret.calls <= 1
          /\ ~stopRequested' => (isRunning' /\ ~shouldExit' /\ pc' \in {"camera", "endCycle", "loop"})
      /\ (program = "impl" /\ ~sent.ret.ok /\ pc = "loop" /\ ~stopRequested /\ pc' # pc) =>
          (pc' = "camera" /\ sent' = NoSend)
    ]_vars

C14_FailedSendThenLoopTest ==
  /\ program = "impl" /\ pc = "loop"
  /\ ~sent.ret.ok /\ sent.ret.calls = 1
  /\ isRunning /\ ~shouldExit

\* C16: the detections produced for one frame of one camera, which are the batch
\* handed over on its behalf, number at most RESULTS_CAP.
C16_AtMostOnePerFrame ==
  unitFn \in {"processFrame", "FrameDetections"} => Len(unitOut) <= RESULTS_CAP

\* C21: IoU(a, b) == IoU(b, a) for every pair of boxes, and IoU(a, b) == 0 when the
\* boxes have no intersection of positive area.
C21_IoUSymmetricZeroWhenDisjoint ==
  unitFn = "IoU" =>
    /\ FloatEq(unitVal.ab, unitVal.ba)
    /\ IoU(unitArg.a, unitArg.b).inter = 0 => FloatIs(unitVal.ab, 0)

\* C22: IoU(a, b) == 0 when either box has non-positive width or height, and
\* IoU(a, a) == 1 for a box of positive width and height.
C22_IoUDegenerateZeroSelfOne ==
  unitFn = "IoU" =>
    /\ (~Nondegenerate(unitArg.a) \/ ~Nondegenerate(unitArg.b)) => FloatIs(unitVal.ab, 0)
    /\ Nondegenerate(unitArg.a) => FloatIs(unitVal.aa, 1)

\* C23: for a configured zone the test returns true for a point with x on xMin or
\* xMax and y within the bounds, and for a point with y on yMin or yMax and x within
\* the bounds; it returns true exactly for the points with both coordinates within.
C23_ZoneBoundsInclusive ==
  (unitFn \in {"isInBlindSpot", "is_in_blind_spot"} /\ unitArg.zone \in DOMAIN BLIND_SPOT_ZONES) =>
    LET r == BLIND_SPOT_ZONES[unitArg.zone]
    IN /\ ~unitVal.threw
       /\ unitVal.value = ( /\ r.xMin <= unitArg.tx /\ unitArg.tx <= r.xMax
                            /\ r.yMin <= unitArg.ty /\ unitArg.ty <= r.yMax )

C23_PointOnCornerContained ==
  /\ unitFn \in {"isInBlindSpot", "is_in_blind_spot"}
  /\ unitArg.zone = "rear" /\ unitArg.tx = 3 /\ unitArg.ty = 10
  /\ unitVal.value

\* C24: for a zone name without a configured rectangle the test returns false for
\* every point and raises nothing.
C24_UnknownZoneFalseNoError ==
  (unitFn \in {"isInBlindSpot", "is_in_blind_spot"} /\ unitArg.zone \notin DOMAIN BLIND_SPOT_ZONES) =>
    (~unitVal.threw /\ ~unitVal.value)

\* C25: every detection built for a frame has a bounding box of positive width and
\* height inside [0, FRAME_W] x [0, FRAME_H] and a confidence at or above the
\* threshold of its program.
C25_BoxInFrameConfidenceAboveThreshold ==
  unitFn \in {"processFrame", "FrameDetections"} =>
    \A i \in 1..Len(unitOut) :
      LET b == unitOut[i].bbox
      IN /\ b[1] < b[3] /\ b[2] < b[4]
         /\ 0 <= b[1] /\ b[3] <= FRAME_W
         /\ 0 <= b[2] /\ b[4] <= FRAME_H
         /\ unitOut[i].confidence >= (IF unitFn = "processFrame" THEN IMPL_MODEL_CONFIDENCE
                                      ELSE BACKEND_MODEL_CONFIDENCE)

DetectionKeys ==
  {"bbox", "confidence", "object", "class_id", "position", "camera_zone", "timestamp"}

\* C26: a message handed to the sink is an object with exactly the fields type (equal
\* to "detections"), timestamp and detections, detections is an array, and each of its
\* elements is an object with exactly the fields bbox (an array of four numbers),
\* confidence, object, class_id, position (an object x, y, z, zone), camera_zone and
\* timestamp.
C26_MessageShape ==
  unitFn \in {"sendDetectionsMessage", "send_detections_message"} =>
    LET msg == unitVal.msg
    IN /\ msg.kind = "object"
       /\ DOMAIN msg.fields = {"type", "timestamp", "detections"}
       /\ msg.fields.type = "detections"
       /\ msg.fields.detections.kind = "array"
       /\ \A i \in 1..Len(msg.fields.detections.items) :
            LET e == msg.fields.detections.items[i]
            IN /\ e.kind = "object"
               /\ DOMAIN e.fields = DetectionKeys
               /\ e.fields.bbox.kind = "array" /\ Len(e.fields.bbox.items) = 4
               /\ e.fields.position.kind = "object"
               /\ DOMAIN e.fields.position.fields = {"x", "y", "z", "zone"}

AllowList == {c \in DOMAIN OBJECT_CLASSES : OBJECT_CLASSES[c] \in {"person", "car"}}

\* C28: a row is retained by the first filter step exactly when its confidence is not
\* below the threshold, its class is in the allow-list, its width and height are
\* positive and its box clipped to the frame has an area of at least MIN_BOX_AREA.
C28_RetainedIffPassesAllTests ==
  unitFn = "KeptRows" =>
    \A i \in 1..Len(unitFrame.rows) :
      LET row == unitFrame.rows[i]
      IN ([box |-> RowBox(row), conf |-> row.conf, cls |-> row.cls] \in Range(unitOut))
         <=> ( /\ row.conf >= BACKEND_MODEL_CONFIDENCE
               /\ row.cls \in AllowList
               /\ row.w > 0 /\ row.h > 0
               /\ RectArea(RowBox(row)) >= MIN_BOX_AREA )

\* C29: an Active camera is read at most ReadRetries times in a cycle; the reads stop
\* with the first that delivers a frame and the session stays Active; the session
\* leaves Active only when all ReadRetries reads failed.
C29_AtMostThreeReadsStopAtFirstSuccess ==
  unitFn = "readCamera" =>
    LET ok == {i \in 1..ReadRetries : unitArg.results[i] = "frame"}
    IN /\ unitVal.reads <= ReadRetries
       /\ ok # {} => /\ unitVal.reads \in ok
                     /\ \A i \in ok : unitVal.reads <= i
                     /\ unitVal.frameRead /\ unitVal.isActive
       /\ ok = {} => (unitVal.reads = ReadRetries /\ ~unitVal.frameRead /\ ~unitVal.isActive)

C29_SecondReadSucceeds ==
  /\ unitFn = "readCamera"
  /\ unitArg.results[1] # "frame" /\ unitArg.results[2] = "frame"
  /\ unitVal.reads = 2 /\ unitVal.isActive

\* C30: the step that makes the startup opens goes on to the cycle loop exactly when
\* some configured camera opened, the sessions Active after it are exactly the zones
\* whose open succeeded, and a zone whose open failed is never read in a cycle.
C30_FailedOpenDoesNotAbort ==
  [][ /\ (~startupOpens.done /\ startupOpens'.done) =>
           /\ (pc' \in {"startProcessing", "loop"}) <=> (startupOpens'.failed # Zones)
           /\ (IF program = "impl" THEN ActiveZones' ELSE CaptureZones')
                = Zones \ startupOpens'.failed
      /\ readThisCycle' \cap startupOpens'.failed = {}
    ]_vars

C30_CycleWithOneCameraMissing ==
  /\ startupOpens.done /\ startupOpens.failed = {"rear"}
  /\ pc = "endCycle"
  /\ readThisCycle = {"left", "right"}

SameClassOverlap(a, b) == a.class_id = b.class_id /\ IoUAbove(a, b, IOU_THRESHOLD)
FirstIndex(seq, v) == CHOOSE i \in 1..Len(seq) : seq[i] = v /\ \A j \in 1..(i - 1) : seq[j] # v
Filtered == unitFn \in {"NMS", "NMSBoxes"}

\* C13: a Publisher given an empty detection list makes no sink call and reports
\* success.
C13_EmptyListNoSinkCall ==
  (unitFn \in {"sendDetections", "send_detections"} /\ unitIn = <<>>) =>
    (unitRet.calls = 0 /\ unitRet.ok)

\* C15: whatever the candidate list, the filter returns at most RESULTS_CAP entries.
C15_OutputWithinCap ==
  Filtered => Len(unitOut) <= RESULTS_CAP

\* C17: a candidate that passes the confidence threshold and is missing after
\* suppression has a retained candidate of its own class with IoU above the threshold.
C17_SuppressedOnlyBySameClass ==
  Filtered =>
    \A i \in 1..Len(unitIn) :
      (unitIn[i].confidence >= CONF_THRESHOLD /\ unitIn[i] \notin Range(unitKept)) =>
        \E k \in Range(unitKept) : SameClassOverlap(k, unitIn[i])

\* C18 as stated: of two same-class input candidates with IoU above the threshold, the
\* one retained is the higher-confidence one: the lower-confidence one is never in the
\* output.
C18_HigherOfPairRetained ==
  unitFn = "NMS" =>
    \A i, j \in 1..Len(unitIn) :
      ( /\ unitIn[j].confidence >= CONF_THRESHOLD
        /\ unitIn[i].confidence > unitIn[j].confidence
        /\ SameClassOverlap(unitIn[i], unitIn[j]) ) =>
        unitIn[j] \notin Range(unitOut)

\* C18 amended: NMS never returns two same-class entries with IoU above the threshold,
\* and every candidate at or above the confidence threshold that it drops has a
\* retained same-class entry of at least its confidence with IoU above the threshold;
\* boxes (0,0,100,100) 0.9 and (5,5,105,105) 0.8 of one class yield the 0.9 entry only.
C18_NoOverlapAndDroppedHasBetter ==
  unitFn = "NMS" =>
    /\ \A p, q \in 1..Len(unitOut) : p # q => ~SameClassOverlap(unitOut[p], unitOut[q])
    /\ \A i \in 1..Len(unitIn) :
         (unitIn[i].confidence >= CONF_THRESHOLD /\ unitIn[i] \notin Range(unitOut)) =>
           \E k \in Range(unitOut) :
             SameClassOverlap(k, unitIn[i]) /\ k.confidence >= unitIn[i].confidence
    /\ (Len(unitIn) = 2 /\ unitIn[1].confidence > unitIn[2].confidence
        /\ unitIn[2].confidence >= CONF_THRESHOLD
        /\ SameClassOverlap(unitIn[1], unitIn[2])) => unitOut = <<unitIn[1]>>

\* C18 witness: NMS returned the 0.9 entry alone for the two overlapping boxes
C18_ScenarioOne ==
  /\ unitFn = "NMS"
  /\ unitIn = << [x1 |-> 0, y1 |-> 0, x2 |-> 100, y2 |-> 100, confidence |-> 90, class_id |-> 0],
                 [x1 |-> 5, y1 |-> 5, x2 |-> 105, y2 |-> 105, confidence |-> 80, class_id |-> 0] >>
  /\ Len(unitOut) = 1 /\ unitOut[1].confidence = 90

\* C19: entries of equal confidence leave the filter in the order they had in the
\* input, and the entry the cap keeps is the earliest input among those of its
\* confidence that survived suppression.
C19_TiesKeepInputOrder ==
  Filtered =>
    /\ \A p, q \in 1..Len(unitOut) :
         (p < q /\ unitOut[p].confidence = unitOut[q].confidence
          /\ unitOut[p] # unitOut[q]) =>
           FirstIndex(unitIn, unitOut[p]) < FirstIndex(unitIn, unitOut[q])
    /\ \A k \in Range(unitKept) :
         (unitOut # <<>> /\ k.confidence = unitOut[1].confidence) =>
           FirstIndex(unitIn, unitOut[1]) <= FirstIndex(unitIn, k)

\* C20: the filter applied to its own output returns that output.
C20_FilterIdempotent ==
  unitFn \in {"NMS_NMS", "NMSBoxes_NMSBoxes"} => unitOut2 = unitOut

\* C31: an inference error on one camera's frame stays inside its cycle: a step that read
\* the camera's frame and handed nothing to the publisher adds no detection to the cycle
\* and goes on to the next camera or to the end of the cycle, from where the next loop test
\* is made; it never leaves the loop.
C31_InferenceErrorContained ==
  [][ (/\ pc = "camera"
       /\ readThisCycle' # readThisCycle
       /\ failStreak'[IF program = "impl" THEN cameras[camIdx].zone
                                           ELSE cameras_[camIdx].zone] = 0
       /\ sent' = sent)
        => /\ pc' \in {"camera", "endCycle"}
           /\ Len(all_detections') <= Len(all_detections)
           /\ isRunning' = isRunning
    ]_vars

\* C32: the update adds one to the frame counter; when a second or more has elapsed since
\* the window start, fps becomes the quotient of the incremented counter by the elapsed
\* seconds without truncation to an integer, the counter becomes 0 and the window start
\* becomes the current time; otherwise fps and the window start are unchanged and the
\* counter is the old one plus one.
C32_FpsTrueQuotientAndWindowReset ==
  unitFn \in {"updateFps", "update_fps"} =>
    LET elapsed == Seconds(unitArg.now - unitArg.last_time)
    IN IF unitArg.now - unitArg.last_time >= 1000
       THEN /\ unitVal.fps.num * elapsed = (unitArg.frame_count + 1) * unitVal.fps.den
            /\ unitVal.frame_count = 0
            /\ unitVal.last_time = unitArg.now
       ELSE /\ unitVal.fps = unitArg.fps
            /\ unitVal.frame_count = unitArg.frame_count + 1
            /\ unitVal.last_time = unitArg.last_time

\* C33: after a cycle whose work took d, with target period T, the loop idles for T - d
\* when d < T and for 0 when d >= T, so that consecutive cycles start max(T, d) apart.
C33_ThrottleTopsUpToPeriod ==
  unitFn \in {"throttleSleep", "throttle_sleep"} =>
    /\ unitVal.sleep = (IF unitArg.d < unitVal.T THEN unitVal.T - unitArg.d ELSE 0)
    /\ unitVal.period = Max(unitVal.T, unitArg.d)

\* C34: in cpp_implementation, once MultiCameraDetector::signalHandler has set shouldExit
\* (the handler of startProcessing being installed), no step of the program sets it back
\* to false: the signal is not lost before the loop tests it.
C34_SignalNeverLost ==
  [][ (program = "impl" /\ handler = "class" /\ shouldExit) => shouldExit' ]_vars

\* C35: when start_cameras returns, every task has finished and has been joined, and
\* whatever the order in which the tasks ran and finished, cameras_ holds exactly the zones
\* whose open succeeded, camera_status_ is "available" for those and "error" for every
\* other configured zone, and the value returned is true exactly when cameras_ is not empty.
C35_StartCamerasJoinsAndIsDeterministic ==
  [][ (program = "backend" /\ futures # <<>> /\ futures' = <<>>) =>
        /\ \A i \in 1..Len(futures) : futures[i].state # "running" /\ futures[i].got # "no"
        /\ CaptureZones' = TasksOpened(futures)
        /\ Len(cameras_') = Cardinality(TasksOpened(futures))
        /\ \A z \in Zones :
             camera_status_'[z] = IF z \in TasksOpened(futures) THEN "available" ELSE "error"
        /\ (pc' = "loop") <=> (cameras_' # <<>>)
        /\ pc' \in {"loop", "exit"}
    ]_vars

\* start_cameras has returned true with the left and right cameras open and the rear
\* one failed
C35_TwoOfThreeOpened ==
  /\ program = "backend" /\ pc = "loop" /\ startupOpens.done /\ futures = <<>>
  /\ CaptureZones = {"left", "right"}
  /\ camera_status_ = [z \in Zones |-> IF z = "rear" THEN "error" ELSE "available"]

\* C36: a batch the cycle loop hands to the publisher is not empty and holds only
\* detections whose camera_zone is the zone of the camera the loop was at.
C36_BatchNonEmptyOfOneCamera ==
  sent.attempts > 0 => (~sent.batch.empty /\ sent.batch.foreign = {})

\* a batch was handed over for the second camera of a cycle in which the first camera
\* was processed as well
C36_BatchOfSecondCamera ==
  /\ InCycle /\ sent.attempts = 1 /\ camIdx = 3
  /\ \A z \in Zones : processed[z] = (IF z \in {"left", "rear"} THEN 1 ELSE 0)
  /\ program = "backend" => Len(all_detections) = 1

\* C37: whatever calls of start_producer, stop_producer and send_detections are made,
\* failed starts among them, is_running_ is true only while a producer handle exists;
\* start_producer on a running producer and stop_producer on one that is not running
\* change nothing.
C37_RunningOnlyWithHandle ==
  [][ /\ kp_is_running_' => producer_'
      /\ (unitFn' = "producer" /\ unitVal'.last = "start" /\ kp_is_running_) =>
           UNCHANGED <<producer_, kp_is_running_, flushed>>
      /\ (unitFn' = "producer" /\ unitVal'.last = "stop" /\ ~kp_is_running_) =>
           UNCHANGED <<producer_, kp_is_running_, flushed>>
    ]_vars

\* the producer was started, and then stopped: it is not running, without a handle, and
\* was flushed
C37_StartedThenStopped ==
  /\ unitFn = "producer" /\ unitVal.last = "stop"
  /\ flushed /\ ~kp_is_running_ /\ ~producer_

\* C38: send_detections on a producer that is not running (never started, start failed,
\* or stopped) makes no sink call, raises no error and leaves the producer as it was.
C38_SendWhileNotRunningDropped ==
  [][ (unitFn' = "producer" /\ unitVal'.last = "send" /\ ~(kp_is_running_ /\ producer_)) =>
        /\ unitVal'.calls = 0
        /\ unitVal'.ok
        /\ UNCHANGED <<producer_, kp_is_running_, flushed>>
    ]_vars

\* a batch was given to a producer that had been started and stopped, and no sink call
\* was made
C38_SentAfterStopDropped ==
  /\ unitFn = "producer" /\ unitVal.last = "send" /\ unitVal.calls = 0
  /\ flushed /\ ~kp_is_running_

====
